---------------------------- MODULE Spec2Model ----------------------------
(***************************************************************************)
(* A model of wallbox_control: the current-limit arbitration of limits.py, *)
(* the register transport of modbus.py, the max-current codec of           *)
(* wallbox.py and the controller facade of main.py.                        *)
(*                                                                         *)
(* Currents are fixed-point numbers in hundredths of an ampere (16.0 A is  *)
(* 1600), so that the controller's 0.05 A tolerance is the integer 5.      *)
(* Python's None is the value None for a current and the string "None" for *)
(* an origin; an optional object is a sequence of length 0 or 1.           *)
(***************************************************************************)
EXTENDS Integers, Sequences, FiniteSets, TLC

VARIABLES
    snapshots,          \* CurrentLimitManager._snapshots (insertion-ordered dict)
    manual_request,     \* CurrentLimitManager._manual_request
    last_decision,      \* CurrentLimitManager._last_decision (<<>> is None)
    last_inputs,        \* HardwareInputLimiter._last_inputs (<<>> is None)
    regs,               \* the wallbox's holding registers, by address
    tp,                 \* the transport operation a caller is in, with its outcome
    last_applied_current,   \* WallboxController._last_applied_current
    last_limit_decision,    \* WallboxController._last_limit_decision (<<>> is None)
    max_current_calls,  \* the values assigned to Wallbox.max_current, in order
    history,            \* the controller calls made so far: name and arguments
    call,               \* the most recent public call: its name, arguments, outcome
    threads,            \* each thread's position in the controller method it runs
    lock,               \* WallboxController._lock: owning thread and hold count
    wire,               \* the threads that have a register operation in flight
    trace,              \* the steps of the limit-changing calls, in order
    gpio,               \* gpio_worker's locals and the input pairs it has polled
    keepalive           \* WallboxController._running, _stop_keepalive, _keepalive_thread

managerVars == <<snapshots, manual_request, last_decision>>
limitsVars == <<snapshots, manual_request, last_decision, last_inputs>>
controllerVars == <<last_applied_current, last_limit_decision, max_current_calls, history>>
vars == <<snapshots, manual_request, last_decision, last_inputs, regs, tp,
          last_applied_current, last_limit_decision, max_current_calls,
          history, call, threads, lock, wire, trace, gpio, keepalive>>
threadVars == <<threads, lock, wire, trace, keepalive>>

-----------------------------------------------------------------------------
(* Bounds and input sets.                                                  *)

\* How many entries of CurrentTable the inputs are drawn from.
NumCurrents == 4

\* Currents offered as inputs, in hundredths of an ampere.
CurrentTable == <<1600, 600, 1597, 2000, 1000, 0>>

Currents == {CurrentTable[i] : i \in 1..NumCurrents}

None == -1

OptCurrents == Currents \cup {None}

-----------------------------------------------------------------------------
(* limits.py: LimitSource, LimitSnapshot, LimitDecision.                   *)

HARDWARE_INPUT == "hardware_inputs"
MANUAL_REQUEST == "manual_request"
LimitSource == {HARDWARE_INPUT, MANUAL_REQUEST}

NoDetails == [mode |-> "None", inputs |-> <<>>]

LimitSnapshot(source, enforced, current_amps, details) ==
    [source |-> source, enforced |-> enforced,
     current_amps |-> current_amps, details |-> details]

LimitDecision(applied_current, origin, overridden, snaps) ==
    [applied_current |-> applied_current, origin |-> origin,
     overridden |-> overridden, snapshots |-> snaps]

(* The dict operations the manager uses on _snapshots: d[k] = v keeps the   *)
(* position of an existing key and appends a new one; pop removes the key. *)
HasKey(d, k) == \E i \in 1..Len(d) : d[i].source = k

DictGet(d, k) == d[CHOOSE i \in 1..Len(d) : d[i].source = k]

DictSet(d, snap) ==
    IF HasKey(d, snap.source)
    THEN [i \in 1..Len(d) |-> IF d[i].source = snap.source THEN snap ELSE d[i]]
    ELSE Append(d, snap)

\* dict.popitem(): the entry inserted last is removed, whatever the key
DictPop_popitem(d, k) == SubSeq(d, 1, Len(d) - 1)

DictPop(d, k) == SelectSeq(d, LAMBDA s : s.source # k)

\* max() where the code takes min()
Min2_taking_max(a, b) == IF a <= b THEN b ELSE a

Min2(a, b) == IF a <= b THEN a ELSE b

\* min(snap.current_amps for snap in limits), limits non-empty
MinCurrent(limits) ==
    CHOOSE c \in {limits[i].current_amps : i \in 1..Len(limits)} :
        \A j \in 1..Len(limits) : c <= limits[j].current_amps

\* next(snap.source.value for snap in limits if snap.current_amps == applied)
FirstSourceWith(limits, applied) ==
    limits[CHOOSE i \in 1..Len(limits) :
              /\ limits[i].current_amps = applied
              /\ \A j \in 1..(i - 1) : limits[j].current_amps # applied].source

\* The filter of hardware_limits without `snapshot.enforced`
IsHardwareLimit_ignoring_enforced(snap) ==
    snap.source # MANUAL_REQUEST /\ snap.current_amps # None

\* The filter of hardware_limits without `snapshot.current_amps is not None`
IsHardwareLimit_ignoring_current(snap) ==
    snap.source # MANUAL_REQUEST /\ snap.enforced

IsHardwareLimit(snap) ==
    snap.source # MANUAL_REQUEST /\ snap.enforced /\ snap.current_amps # None

hardware_limits(snaps) == SelectSeq(snaps, IsHardwareLimit)

\* manual_current without the test of the enforced flag
manual_current_ignoring_enforced(snaps) ==
    IF HasKey(snaps, MANUAL_REQUEST)
    THEN DictGet(snaps, MANUAL_REQUEST).current_amps
    ELSE None

manual_current(snaps) ==
    IF HasKey(snaps, MANUAL_REQUEST) /\ DictGet(snaps, MANUAL_REQUEST).enforced
    THEN DictGet(snaps, MANUAL_REQUEST).current_amps
    ELSE None

\* _resolve reporting a manual request equal to the hardware cap as overridden
_resolve_overridden_at_equal(snaps) ==
    LET hw == hardware_limits(snaps)
        m  == manual_current(snaps)
    IN  IF Len(hw) > 0 /\ m # None
        THEN LET hw_max == MinCurrent(hw)
             IN  LimitDecision(Min2(m, hw_max), MANUAL_REQUEST, m >= hw_max, snaps)
        ELSE IF Len(hw) > 0
        THEN LET applied == MinCurrent(hw)
             IN  LimitDecision(applied, FirstSourceWith(hw, applied), FALSE, snaps)
        ELSE IF m # None
        THEN LimitDecision(m, MANUAL_REQUEST, FALSE, snaps)
        ELSE LimitDecision(None, "None", FALSE, snaps)

\* _resolve reporting the hardware source as origin when its cap is binding
_resolve_origin_of_binding(snaps) ==
    LET hw == hardware_limits(snaps)
        m  == manual_current(snaps)
    IN  IF Len(hw) > 0 /\ m # None
        THEN LET hw_max == MinCurrent(hw)
             IN  LimitDecision(Min2(m, hw_max),
                               IF m > hw_max THEN FirstSourceWith(hw, hw_max)
                                             ELSE MANUAL_REQUEST,
                               m > hw_max, snaps)
        ELSE IF Len(hw) > 0
        THEN LET applied == MinCurrent(hw)
             IN  LimitDecision(applied, FirstSourceWith(hw, applied), FALSE, snaps)
        ELSE IF m # None
        THEN LimitDecision(m, MANUAL_REQUEST, FALSE, snaps)
        ELSE LimitDecision(None, "None", FALSE, snaps)

\* CurrentLimitManager._resolve: the decision for the stored snapshots
_resolve(snaps) ==
    LET hw == hardware_limits(snaps)
        m  == manual_current(snaps)
    IN  IF Len(hw) > 0 /\ m # None
        THEN LET hw_max == MinCurrent(hw)
             IN  LimitDecision(Min2(m, hw_max), MANUAL_REQUEST, m > hw_max, snaps)
        ELSE IF Len(hw) > 0
        THEN LET applied == MinCurrent(hw)
             IN  LimitDecision(applied, FirstSourceWith(hw, applied), FALSE, snaps)
        ELSE IF m # None
        THEN LimitDecision(m, MANUAL_REQUEST, FALSE, snaps)
        ELSE LimitDecision(None, "None", FALSE, snaps)

\* The manual snapshot request_manual installs
ManualSnapshot(value) ==
    LimitSnapshot(MANUAL_REQUEST, value # None, value, NoDetails)

\* HardwareInputLimiter.evaluate called with the positional arguments args:
\* the method takes exactly one, first_high
evaluate(args) ==
    IF Len(args) # 1
    THEN [err |-> "TypeError", snap |-> <<>>]
    ELSE [err |-> "None",
          snap |-> <<LimitSnapshot(
                       HARDWARE_INPUT, TRUE,
                       IF args[1] THEN 600 ELSE 1600,
                       [mode   |-> IF args[1] THEN "reduced_charge" ELSE "normal_charge",
                        inputs |-> <<args[1]>>])>>]

-----------------------------------------------------------------------------
(* The operations of limits.py as functions of the manager's state.        *)

\* request_manual storing the snapshot without remembering the value
request_manual_forgetting_value(snaps, value) ==
    LET new == DictSet(snaps, ManualSnapshot(value))
    IN  [snapshots |-> new, manual_request |-> None, decision |-> _resolve(new)]

\* CurrentLimitManager.request_manual(value)
request_manual(snaps, value) ==
    LET new == DictSet(snaps, ManualSnapshot(value))
    IN  [snapshots |-> new, manual_request |-> value, decision |-> _resolve(new)]

\* CurrentLimitManager.apply_override_snapshot(snapshot)
apply_override_snapshot(snaps, mr, snapshot) ==
    LET new == DictSet(snaps, snapshot)
    IN  [snapshots |-> new, manual_request |-> mr, decision |-> _resolve(new)]

\* clear_source leaving the remembered manual value in place
clear_source_keeps_manual_value(snaps, mr, source) ==
    LET new == DictPop(snaps, source)
    IN  [snapshots |-> new, manual_request |-> mr, decision |-> _resolve(new)]

\* CurrentLimitManager.clear_source(source)
clear_source(snaps, mr, source) ==
    LET new == DictPop(snaps, source)
    IN  [snapshots |-> new,
         manual_request |-> IF source = MANUAL_REQUEST THEN None ELSE mr,
         decision |-> _resolve(new)]

\* CurrentLimitManager.last_decision(): None (<<>>) before the first resolution
last_decision_getter(ld) == ld

\* debug_snapshot reporting the manual request as the applied current
debug_snapshot_applied_from_request(snaps, mr, ld) ==
    [manual_request |-> mr,
     decision |-> [applied_current |-> mr,
                   origin          |-> IF Len(ld) = 1 THEN ld[1].origin ELSE "None",
                   overridden      |-> IF Len(ld) = 1 THEN ld[1].overridden ELSE FALSE],
     sources |-> snaps]

\* CurrentLimitManager.debug_snapshot()
debug_snapshot(snaps, mr, ld) ==
    [manual_request |-> mr,
     decision |-> [applied_current |-> IF Len(ld) = 1 THEN ld[1].applied_current
                                                      ELSE None,
                   origin          |-> IF Len(ld) = 1 THEN ld[1].origin ELSE "None",
                   overridden      |-> IF Len(ld) = 1 THEN ld[1].overridden ELSE FALSE],
     sources |-> snaps]

-----------------------------------------------------------------------------
(* modbus.py: the register transport.                                      *)
(*                                                                         *)
(* The serial link is the environment.  A fault plan env says, for each of *)
(* the attempts of one transport operation, how each minimalmodbus call of *)
(* that attempt ends (env.io), and whether the reconnection that follows a *)
(* transient fault succeeds (env.rc).  A call ends "ok", with "OSError"    *)
(* (OSError or serial.SerialException: a link fault) or with "ValueError"  *)
(* (any other exception); a write may also end "lost": the call returns    *)
(* but the device keeps the register's old value.  plan.a is the outcome   *)
(* of an attempt's first call and plan.b that of its second.               *)

\* The registers of the model: max current (261) and failsafe current (262)
RegAddrs == {261, 262}

NoTransportOp == [op |-> [kind |-> "none"]]

\* One more attempt than the source allows
MAX_RECONNECT_ATTEMPTS_plus_one == 3 + 1

MAX_RECONNECT_ATTEMPTS == 3
WRITE_HOLDING_REGISTER == 6
READ_HOLDING_REGISTER == 3
READ_INPUT_REGISTER == 4
WordBase == 65536

\* except Exception: every exception taken for a link fault
IsTransient_any_exception(exc) == TRUE

\* except (OSError, serial.SerialException, ValueError)
IsTransient_or_value_error(exc) == exc.type \in {"OSError", "ValueError"}

\* except (OSError, serial.SerialException)
IsTransient(exc) == exc.type = "OSError"

\* last_exception kept from the first fault on
KeepFirstException(last_exception, exc) ==
    IF last_exception = <<>> THEN <<exc>> ELSE last_exception

\* The exhaustion error raised without `from last_exception`
ForgetException(last_exception, exc) == <<>>

\* last_exception = exc
RememberException(last_exception, exc) == <<exc>>

NoExc == [type |-> "None"]

\* minimalmodbus read_register(address, 0, functioncode) under outcome
read_register(rg, address, fc, outcome, attempt) ==
    [exc   |-> IF outcome = "ok" THEN NoExc
               ELSE [type |-> outcome, call |-> "read_register", attempt |-> attempt],
     value |-> IF outcome = "ok" THEN rg[address] ELSE None,
     regs  |-> rg,
     events |-> <<[call |-> "read_register", address |-> address, fc |-> fc,
                   outcome |-> outcome, attempt |-> attempt,
                   value |-> IF outcome = "ok" THEN rg[address] ELSE None]>>]

\* minimalmodbus write_register(address, value, 0, functioncode) under outcome
write_register(rg, address, value, outcome, attempt) ==
    [exc   |-> IF outcome \in {"ok", "lost"} THEN NoExc
               ELSE [type |-> outcome, call |-> "write_register", attempt |-> attempt],
     value |-> None,
     regs  |-> IF outcome = "ok" THEN [rg EXCEPT ![address] = value] ELSE rg,
     events |-> <<[call |-> "write_register", address |-> address, value |-> value,
                   outcome |-> outcome, attempt |-> attempt]>>]

\* _write_and_verify that, on a retry, only reads the register back
_write_and_verify_read_back_only_on_retry(rg, address, value, plan, attempt) ==
    LET w == write_register(rg, address, value, plan.a, attempt)
        v == read_register(IF attempt = 1 THEN w.regs ELSE rg, address,
                           READ_HOLDING_REGISTER, plan.b, attempt)
    IN  IF attempt = 1 /\ w.exc.type # "None" THEN w
        ELSE IF v.exc.type # "None"
        THEN [v EXCEPT !.events = IF attempt = 1 THEN w.events \o v.events
                                                 ELSE v.events]
        ELSE IF v.value # value
        THEN [exc |-> [type |-> "RuntimeError", what |-> "Verification mismatch",
                       attempt |-> attempt],
              value |-> None, regs |-> v.regs,
              events |-> IF attempt = 1 THEN w.events \o v.events ELSE v.events]
        ELSE [exc |-> NoExc, value |-> TRUE, regs |-> v.regs,
              events |-> IF attempt = 1 THEN w.events \o v.events ELSE v.events]

\* _write_register._write_and_verify: write, read back, compare
_write_and_verify(rg, address, value, plan, attempt) ==
    LET w == write_register(rg, address, value, plan.a, attempt)
        v == read_register(w.regs, address, READ_HOLDING_REGISTER, plan.b, attempt)
    IN  IF w.exc.type # "None" THEN w
        ELSE IF v.exc.type # "None"
        THEN [v EXCEPT !.events = w.events \o v.events]
        ELSE IF v.value # value
        THEN [exc |-> [type |-> "RuntimeError", what |-> "Verification mismatch",
                       attempt |-> attempt],
              value |-> None, regs |-> v.regs, events |-> w.events \o v.events]
        ELSE [exc |-> NoExc, value |-> TRUE, regs |-> v.regs,
              events |-> w.events \o v.events]

\* _read_both_registers keeping the high word of an earlier attempt: a retry
\* reads the low word only
_read_both_registers_low_only(rg, high_register, low_register, fc, plan, attempt) ==
    LET high == read_register(rg, high_register, fc, plan.a, attempt)
        low  == read_register(rg, low_register, fc, plan.b, attempt)
    IN  IF attempt = 1 /\ high.exc.type # "None" THEN high
        ELSE IF attempt = 1 /\ low.exc.type # "None"
        THEN [low EXCEPT !.events = high.events \o low.events]
        ELSE IF attempt = 1
        THEN [exc |-> NoExc, value |-> high.value * WordBase + low.value,
              regs |-> rg, events |-> high.events \o low.events]
        ELSE IF low.exc.type # "None" THEN low
        ELSE [exc |-> NoExc, value |-> rg[high_register] * WordBase + low.value,
              regs |-> rg, events |-> low.events]

\* _read_32bit_from_registers._read_both_registers: high word, then low word
_read_both_registers(rg, high_register, low_register, fc, plan, attempt) ==
    LET high == read_register(rg, high_register, fc, plan.a, attempt)
        low  == read_register(high.regs, low_register, fc, plan.b, attempt)
    IN  IF high.exc.type # "None" THEN high
        ELSE IF low.exc.type # "None"
        THEN [low EXCEPT !.events = high.events \o low.events]
        ELSE [exc |-> NoExc, value |-> high.value * WordBase + low.value,
              regs |-> low.regs, events |-> high.events \o low.events]

\* The callable handed to _execute_with_reconnect, run once
operation(op, rg, plan, attempt) ==
    IF op.kind = "read"
    THEN read_register(rg, op.address, op.fc, plan.a, attempt)
    ELSE IF op.kind = "read32"
    THEN _read_both_registers(rg, op.high, op.low, op.fc, plan, attempt)
    ELSE _write_and_verify(rg, op.address, op.value, plan, attempt)

\* WallboxInstrument._reconnect_serial: True when the port reopened
_reconnect_serial(outcome, attempt) ==
    [ok |-> outcome,
     events |-> <<[call |-> "reconnect", outcome |-> outcome, attempt |-> attempt]>>]

\* The for loop of _execute_with_reconnect from iteration `attempt` on
\* (attempt counts from 0, as range(MAX_RECONNECT_ATTEMPTS) does)
RECURSIVE Attempts(_, _, _, _, _, _)
Attempts(op, env, attempt, rg, events, last_exception) ==
    IF attempt >= MAX_RECONNECT_ATTEMPTS
    THEN [raised |-> TRUE, value |-> None, regs |-> rg, events |-> events,
          cause |-> <<[type |-> "RuntimeError",
                       what |-> "Failed to execute operation after attempts"]>>
                    \o last_exception]
    ELSE LET r == operation(op, rg, env.io[attempt + 1], attempt + 1)
         IN  IF r.exc.type = "None"
             THEN [raised |-> FALSE, value |-> r.value, regs |-> r.regs,
                   events |-> events \o r.events, cause |-> <<>>]
             ELSE IF IsTransient(r.exc)
             THEN IF attempt < MAX_RECONNECT_ATTEMPTS - 1
                  THEN LET c == _reconnect_serial(env.rc[attempt + 1], attempt + 1)
                       IN  Attempts(op, env, attempt + 1, r.regs,
                                    events \o r.events \o c.events,
                                    RememberException(last_exception, r.exc))
                  ELSE Attempts(op, env, attempt + 1, r.regs,
                                events \o r.events,
                                RememberException(last_exception, r.exc))
             ELSE [raised |-> TRUE, value |-> None, regs |-> r.regs,
                   events |-> events \o r.events, cause |-> <<r.exc>>]

\* _execute_with_reconnect with the loop started at 1: range(1, MAX_RECONNECT_ATTEMPTS)
_execute_with_reconnect_from_one(op, env, rg) == Attempts(op, env, 1, rg, <<>>, <<>>)

\* WallboxInstrument._execute_with_reconnect(operation)
_execute_with_reconnect(op, env, rg) == Attempts(op, env, 0, rg, <<>>, <<>>)

\* except Exception as exc: raise RuntimeError(f"Failed to ... {register}") from exc
WrapFailure(r, what, address) ==
    IF r.raised
    THEN [r EXCEPT !.cause = <<[type |-> "RuntimeError", what |-> what,
                                register |-> address]>> \o r.cause]
    ELSE r

\* WallboxInstrument._read_register(register_address, function_code)
_read_register(rg, address, fc, env) ==
    WrapFailure(
        _execute_with_reconnect([kind |-> "read", address |-> address, fc |-> fc],
                                env, rg),
        "Failed to read register", address)

\* WallboxInstrument._read_32bit_from_registers(high, low, function_code)
_read_32bit_from_registers(rg, high_register, low_register, fc, env) ==
    WrapFailure(
        _execute_with_reconnect([kind |-> "read32", high |-> high_register,
                                 low |-> low_register, fc |-> fc], env, rg),
        "Failed to read 32-bit value from registers", <<high_register, low_register>>)

\* WallboxInstrument._write_register(register_address, value)
_write_register(rg, address, value, env) ==
    WrapFailure(
        _execute_with_reconnect([kind |-> "write", address |-> address,
                                 value |-> value], env, rg),
        "Failed to write value to register", address)

(* The fault plans.  A plan entry the operation never consults is "ok", so *)
(* that two plans differ only where the operation can tell them apart.     *)
ReadOutcomes == {"ok", "OSError", "ValueError"}
WriteOutcomes == {"ok", "lost", "OSError", "ValueError"}

ReadPlans == {[a |-> x, b |-> "ok"] : x \in ReadOutcomes}
Read32Plans ==
    {[a |-> "ok", b |-> y] : y \in ReadOutcomes}
    \cup {[a |-> x, b |-> "ok"] : x \in {"OSError", "ValueError"}}
WritePlans ==
    {[a |-> x, b |-> y] : x \in {"ok", "lost"}, y \in ReadOutcomes}
    \cup {[a |-> x, b |-> "ok"] : x \in {"OSError", "ValueError"}}

OkPlan == [a |-> "ok", b |-> "ok"]

\* The plan makes the attempt end with a link fault
PlanIsTransient(plan) ==
    plan.a = "OSError" \/ (plan.a \in {"ok", "lost"} /\ plan.b = "OSError")

AttemptIndex == 1..MAX_RECONNECT_ATTEMPTS
ReconnectIndex == 1..(MAX_RECONNECT_ATTEMPTS - 1)

\* Attempt k is made: every attempt before it ended with a link fault
Reached(io, k) == \A j \in 1..(k - 1) : PlanIsTransient(io[j])

Envs(plans) ==
    {env \in [io : [AttemptIndex -> plans], rc : [ReconnectIndex -> BOOLEAN]] :
        /\ \A k \in AttemptIndex : Reached(env.io, k) \/ env.io[k] = OkPlan
        /\ \A k \in ReconnectIndex :
              (Reached(env.io, k) /\ PlanIsTransient(env.io[k])) \/ env.rc[k]}

ReadEnvs == Envs(ReadPlans)
Read32Envs == Envs(Read32Plans)
WriteEnvs == Envs(WritePlans)

-----------------------------------------------------------------------------
(* wallbox.py: the max-current property; main.py: applying a decision.     *)

\* fit_uint16
fit_uint16(value) ==
    IF value < 0 THEN 0 ELSE IF value > 65535 THEN 65535 ELSE value

\* int(value * 10) for a current in hundredths of an ampere: int() truncates
\* towards zero
TenthsOf(value) == IF value >= 0 THEN value \div 10 ELSE -((-value) \div 10)

\* Wallbox.max_current setter
max_current_setter(rg, value, env) ==
    LET int_value == TenthsOf(value)
    IN  IF int_value # 0 /\ (int_value < 60 \/ int_value > 160)
        THEN [raised |-> TRUE, value |-> None, regs |-> rg, events |-> <<>>,
              cause |-> <<[type |-> "ValueError", what |-> "Invalid max current"]>>]
        ELSE _write_register(rg, 261, fit_uint16(int_value), env)

\* What the controller sees of one assignment to Wallbox.max_current
SetterOutcome(r) ==
    [raised |-> r.raised,
     exc    |-> IF r.raised THEN r.cause[1].type ELSE "None",
     reg    |-> r.regs[261],
     writes |-> Cardinality({i \in 1..Len(r.events) :
                               r.events[i].call = "write_register"})]

\* The contents register 261 can have: 0 and the encodings of the currents
Reg261Values ==
    {0} \cup {fit_uint16(TenthsOf(c)) : c \in {x \in Currents :
                  TenthsOf(x) = 0 \/ (TenthsOf(x) >= 60 /\ TenthsOf(x) <= 160)}}

\* The outcomes of Wallbox.max_current = value on a device whose register 261
\* holds old, over every fault plan of the link
SetterOutcomes ==
    [value \in Currents, old \in Reg261Values |->
        {SetterOutcome(max_current_setter([a \in RegAddrs |-> old], value, env)) :
            env \in WriteEnvs}]

(* wallbox.py: the other properties the claims are about.  A current is in *)
(* hundredths of an ampere and a temperature in hundredths of a degree, so *)
(* that register / 10.0 is register * 10.                                  *)

\* raise ValueError(...) of a property after the transport result r
DecodeError(r, what) ==
    [raised |-> TRUE, value |-> None, regs |-> r.regs, events |-> r.events,
     cause |-> <<[type |-> "ValueError", what |-> what]>>]

\* pcb_temperature taking the raw register as unsigned
pcb_temperature_unsigned(rg, env) ==
    LET r == _read_register(rg, 9, READ_INPUT_REGISTER, env)
    IN  IF r.raised THEN r ELSE [r EXCEPT !.value = r.value * 10]

\* Wallbox.pcb_temperature
pcb_temperature(rg, env) ==
    LET r == _read_register(rg, 9, READ_INPUT_REGISTER, env)
    IN  IF r.raised THEN r
        ELSE [r EXCEPT !.value = (IF r.value >= 32768 THEN r.value - 65536
                                                      ELSE r.value) * 10]

\* Wallbox.modbus_timeout getter
modbus_timeout_getter(rg, env) ==
    _read_register(rg, 257, READ_HOLDING_REGISTER, env)

\* Wallbox.modbus_timeout setter
modbus_timeout_setter(rg, value, env) ==
    _write_register(rg, 257, fit_uint16(value), env)

\* Wallbox.standby_control getter
standby_control_getter(rg, env) ==
    LET r == _read_register(rg, 258, READ_HOLDING_REGISTER, env)
    IN  IF r.raised THEN r
        ELSE IF r.value = 0 THEN [r EXCEPT !.value = TRUE]
        ELSE IF r.value = 4 THEN [r EXCEPT !.value = FALSE]
        ELSE DecodeError(r, "Unknown standby control state")

\* Wallbox.standby_control setter
standby_control_setter(rg, value, env) ==
    _write_register(rg, 258, IF value THEN 0 ELSE 4, env)

\* Wallbox.remote_lock getter
remote_lock_getter(rg, env) ==
    LET r == _read_register(rg, 259, READ_HOLDING_REGISTER, env)
    IN  IF r.raised THEN r
        ELSE IF r.value \in {0, 1} THEN [r EXCEPT !.value = ~(r.value # 0)]
        ELSE DecodeError(r, "Unknown remote lock state")

\* remote_lock setter writing the lock state uninverted
remote_lock_setter_uninverted(rg, value, env) ==
    _write_register(rg, 259, IF value THEN 1 ELSE 0, env)

\* Wallbox.remote_lock setter
remote_lock_setter(rg, value, env) ==
    _write_register(rg, 259, IF value THEN 0 ELSE 1, env)

\* Wallbox.max_current getter
max_current_getter(rg, env) ==
    LET r == _read_register(rg, 261, READ_HOLDING_REGISTER, env)
    IN  IF r.raised THEN r ELSE [r EXCEPT !.value = r.value * 10]

\* Wallbox.failsafe_current getter
failsafe_current_getter(rg, env) ==
    LET r == _read_register(rg, 262, READ_HOLDING_REGISTER, env)
    IN  IF r.raised THEN r
        ELSE IF (r.value >= 60 /\ r.value <= 160) \/ r.value = 0
        THEN [r EXCEPT !.value = r.value * 10]
        ELSE DecodeError(r, "Invalid failsafe current")

\* failsafe_current setter with the upper bound one register step too high
failsafe_current_setter_upper_161(rg, value, env) ==
    LET int_value == TenthsOf(value)
    IN  IF (int_value < 60 \/ int_value > 161) /\ int_value # 0
        THEN [raised |-> TRUE, value |-> None, regs |-> rg, events |-> <<>>,
              cause |-> <<[type |-> "ValueError", what |-> "Invalid failsafe current"]>>]
        ELSE _write_register(rg, 262, fit_uint16(int_value), env)

\* Wallbox.failsafe_current setter
failsafe_current_setter(rg, value, env) ==
    LET int_value == TenthsOf(value)
    IN  IF (int_value < 60 \/ int_value > 160) /\ int_value # 0
        THEN [raised |-> TRUE, value |-> None, regs |-> rg, events |-> <<>>,
              cause |-> <<[type |-> "ValueError", what |-> "Invalid failsafe current"]>>]
        ELSE _write_register(rg, 262, fit_uint16(int_value), env)

\* getattr(wallbox, prop)
WallboxGet(prop, rg, env) ==
    CASE prop = "pcb_temperature"  -> pcb_temperature(rg, env)
      [] prop = "modbus_timeout"   -> modbus_timeout_getter(rg, env)
      [] prop = "standby_control"  -> standby_control_getter(rg, env)
      [] prop = "remote_lock"      -> remote_lock_getter(rg, env)
      [] prop = "max_current"      -> max_current_getter(rg, env)
      [] prop = "failsafe_current" -> failsafe_current_getter(rg, env)

\* setattr(wallbox, prop, value)
WallboxSet(prop, rg, value, env) ==
    CASE prop = "modbus_timeout"   -> modbus_timeout_setter(rg, value, env)
      [] prop = "standby_control"  -> standby_control_setter(rg, value, env)
      [] prop = "remote_lock"      -> remote_lock_setter(rg, value, env)
      [] prop = "max_current"      -> max_current_setter(rg, value, env)
      [] prop = "failsafe_current" -> failsafe_current_setter(rg, value, env)

\* The register of each property
RegisterOf(prop) ==
    CASE prop = "pcb_temperature"  -> 9
      [] prop = "modbus_timeout"   -> 257
      [] prop = "standby_control"  -> 258
      [] prop = "remote_lock"      -> 259
      [] prop = "max_current"      -> 261
      [] prop = "failsafe_current" -> 262

\* abs(self._last_applied_current - target) < 0.05
TOLERANCE == 5

Abs(x) == IF x < 0 THEN -x ELSE x

\* _apply_decision without the comparison with the last applied current
_apply_decision_no_dedup(decision, last_applied, outcome) ==
    LET target == decision.applied_current
    IN  IF target = None
        THEN [ret |-> None, last_applied |-> last_applied, calls |-> <<>>,
              write |-> "none"]
        ELSE IF ~outcome.raised
        THEN [ret |-> target, last_applied |-> target, calls |-> <<target>>,
              write |-> "ok"]
        ELSE [ret |-> None, last_applied |-> None, calls |-> <<target>>,
              write |-> "failed"]

\* _apply_decision keeping the last applied current when the write fails
_apply_decision_keeps_memory(decision, last_applied, outcome) ==
    LET target == decision.applied_current
    IN  IF target = None
        THEN [ret |-> None, last_applied |-> last_applied, calls |-> <<>>,
              write |-> "none"]
        ELSE IF last_applied # None /\ Abs(last_applied - target) < TOLERANCE
        THEN [ret |-> target, last_applied |-> last_applied, calls |-> <<>>,
              write |-> "skipped"]
        ELSE IF ~outcome.raised
        THEN [ret |-> target, last_applied |-> target, calls |-> <<target>>,
              write |-> "ok"]
        ELSE [ret |-> None, last_applied |-> last_applied, calls |-> <<target>>,
              write |-> "failed"]

\* _apply_decision returning the remembered current when it skips the write
_apply_decision_returns_last_applied(decision, last_applied, outcome) ==
    LET target == decision.applied_current
    IN  IF target = None
        THEN [ret |-> None, last_applied |-> last_applied, calls |-> <<>>,
              write |-> "none"]
        ELSE IF last_applied # None /\ Abs(last_applied - target) < TOLERANCE
        THEN [ret |-> last_applied, last_applied |-> last_applied, calls |-> <<>>,
              write |-> "skipped"]
        ELSE IF ~outcome.raised
        THEN [ret |-> target, last_applied |-> target, calls |-> <<target>>,
              write |-> "ok"]
        ELSE [ret |-> None, last_applied |-> None, calls |-> <<target>>,
              write |-> "failed"]

\* _apply_decision forgetting the last applied current when there is no target
_apply_decision_forgets_on_absent(decision, last_applied, outcome) ==
    LET target == decision.applied_current
    IN  IF target = None
        THEN [ret |-> None, last_applied |-> None, calls |-> <<>>,
              write |-> "none"]
        ELSE IF last_applied # None /\ Abs(last_applied - target) < TOLERANCE
        THEN [ret |-> target, last_applied |-> last_applied, calls |-> <<>>,
              write |-> "skipped"]
        ELSE IF ~outcome.raised
        THEN [ret |-> target, last_applied |-> target, calls |-> <<target>>,
              write |-> "ok"]
        ELSE [ret |-> None, last_applied |-> None, calls |-> <<target>>,
              write |-> "failed"]

\* WallboxController._apply_decision: the returned current, the new
\* _last_applied_current, the values assigned to Wallbox.max_current, and
\* what became of the write.  outcome is that of the assignment, if made.
_apply_decision(decision, last_applied, outcome) ==
    LET target == decision.applied_current
    IN  IF target = None
        THEN [ret |-> None, last_applied |-> last_applied, calls |-> <<>>,
              write |-> "none"]
        ELSE IF last_applied # None /\ Abs(last_applied - target) < TOLERANCE
        THEN [ret |-> target, last_applied |-> last_applied, calls |-> <<>>,
              write |-> "skipped"]
        ELSE IF ~outcome.raised
        THEN [ret |-> target, last_applied |-> target, calls |-> <<target>>,
              write |-> "ok"]
        ELSE [ret |-> None, last_applied |-> None, calls |-> <<target>>,
              write |-> "failed"]

-----------------------------------------------------------------------------
(* main.py: the threads that call the controller, and its reentrant lock.  *)

\* How many request-handler threads there are
NumHandlers == 2

HandlerTable == <<"handler1", "handler2", "handler3">>
Handlers == {HandlerTable[i] : i \in 1..NumHandlers}

\* threading.Thread(target=self._keepalive_worker, name="WallboxKeepalive")
KEEPALIVE == "WallboxKeepalive"

\* threading.Thread(target=gpio_worker)
GPIO == "gpio_worker"

Threads == Handlers \cup {KEEPALIVE, GPIO}

\* A thread outside every controller method
Idle == [at |-> "idle", op |-> "None", args |-> <<>>, id |-> 0,
         decision |-> <<>>, ret |-> None, write |-> "none"]

\* threading.RLock(): nobody holds it
Unlocked == [owner |-> "None", count |-> 0]

\* A lock that every thread may take at any time
CanAcquire_unguarded(l, t) == TRUE

\* RLock.acquire blocks unless the lock is free or the caller holds it
CanAcquire(l, t) == l.owner \in {"None", t}

Acquire(l, t) == [owner |-> t, count |-> l.count + 1]

Release(l, t) == IF l.count <= 1 THEN Unlocked ELSE [l EXCEPT !.count = @ - 1]

\* A with block that ends once the manager has resolved, before the decision
\* is applied to the device
InsideWith_manager_only(at) == at \in {"locked", "mutated", "resolved"}

\* The positions inside `with self._thread_safe_access():`
InsideWith(at) ==
    at \in {"locked", "mutated", "resolved", "writing", "applied", "reading"}

-----------------------------------------------------------------------------
(* The initial state: a fresh manager, limiter and controller.             *)

\* WallboxController.__init__: _running = False, _stop_keepalive = Event(),
\* _keepalive_thread = None
NotRunning ==
    [running |-> FALSE, stop_keepalive |-> FALSE, thread |-> "None"]

\* gpio_worker before its first poll: last_state_1 = last_state_2 = None,
\* last_target = None (an absent state is <<>>)
NoPolls ==
    [last_state_1 |-> <<>>, last_state_2 |-> <<>>, last_target |-> None,
     polls |-> <<>>]

Init ==
    /\ snapshots = <<>>
    /\ manual_request = None
    /\ last_decision = <<>>
    /\ last_inputs = <<>>
    /\ regs = [a \in RegAddrs |-> 0]
    /\ tp = NoTransportOp
    /\ last_applied_current = None
    /\ last_limit_decision = <<>>
    /\ max_current_calls = <<>>
    /\ history = <<>>
    /\ call = [op |-> "init"]
    /\ threads = [t \in Threads |->
                    IF t = KEEPALIVE THEN [Idle EXCEPT !.at = "unstarted"] ELSE Idle]
    /\ lock = Unlocked
    /\ wire = {}
    /\ trace = <<>>
    /\ gpio = NoPolls
    /\ keepalive = NotRunning

-----------------------------------------------------------------------------
(* SpecLimits: the classes of limits.py, called directly.                  *)

Manager_request_manual(value) ==
    LET r == request_manual(snapshots, value)
    IN  /\ snapshots' = r.snapshots
        /\ manual_request' = r.manual_request
        /\ last_decision' = <<r.decision>>
        /\ call' = [op |-> "request_manual", value |-> value, ret |-> r.decision]
        /\ UNCHANGED <<gpio, last_inputs, regs, tp, controllerVars, threadVars>>

Manager_apply_override_snapshot(snapshot) ==
    LET r == apply_override_snapshot(snapshots, manual_request, snapshot)
    IN  /\ snapshots' = r.snapshots
        /\ manual_request' = r.manual_request
        /\ last_decision' = <<r.decision>>
        /\ call' = [op |-> "apply_override_snapshot", snapshot |-> snapshot,
                    ret |-> r.decision]
        /\ UNCHANGED <<gpio, last_inputs, regs, tp, controllerVars, threadVars>>

Manager_clear_source(source) ==
    LET r == clear_source(snapshots, manual_request, source)
    IN  /\ snapshots' = r.snapshots
        /\ manual_request' = r.manual_request
        /\ last_decision' = <<r.decision>>
        /\ call' = [op |-> "clear_source", source |-> source, ret |-> r.decision,
                    before |-> last_decision]
        /\ UNCHANGED <<gpio, last_inputs, regs, tp, controllerVars, threadVars>>

\* HardwareInputLimiter.evaluate(*args): one argument as the method is
\* declared, two as WallboxController.update_hardware_inputs passes them
Limiter_evaluate(args) ==
    LET r == evaluate(args)
    IN  /\ last_inputs' = IF r.err = "None" THEN <<args>> ELSE last_inputs
        /\ call' = [op |-> "evaluate", args |-> args, err |-> r.err, ret |-> r.snap]
        /\ UNCHANGED <<gpio, managerVars, regs, tp, controllerVars, threadVars>>

\* The snapshots a caller of apply_override_snapshot may pass
InputSnapshots ==
    {LimitSnapshot(s, e, c, NoDetails) :
        s \in LimitSource, e \in BOOLEAN, c \in OptCurrents}
    \cup {evaluate(<<a>>).snap[1] : a \in BOOLEAN}

EvaluateArgs == {<<a>> : a \in BOOLEAN} \cup {<<a, b>> : a, b \in BOOLEAN}

NextLimits ==
    \/ \E value \in OptCurrents : Manager_request_manual(value)
    \/ \E snapshot \in InputSnapshots : Manager_apply_override_snapshot(snapshot)
    \/ \E source \in LimitSource : Manager_clear_source(source)
    \/ \E args \in EvaluateArgs : Limiter_evaluate(args)

SpecLimits == Init /\ [][NextLimits]_vars

-----------------------------------------------------------------------------
(* SpecTransport: the transport of modbus.py, called directly.             *)

\* The register values offered to _write_register
NumRegValues == 2
RegValueTable == <<160, 60, 100, 0, 159>>
RegValues == {RegValueTable[i] : i \in 1..NumRegValues}

Transport_read_register(address, fc, env) ==
    LET r == _read_register(regs, address, fc, env)
    IN  /\ tp = NoTransportOp
        /\ tp' = [op |-> [kind |-> "read", address |-> address, fc |-> fc],
                  env |-> env, result |-> r]
        /\ regs' = r.regs
        /\ call' = [op |-> "_read_register"]
        /\ UNCHANGED <<gpio, limitsVars, controllerVars, threadVars>>

Transport_read_32bit_from_registers(high_register, low_register, fc, env) ==
    LET r == _read_32bit_from_registers(regs, high_register, low_register, fc, env)
    IN  /\ tp = NoTransportOp
        /\ tp' = [op |-> [kind |-> "read32", high |-> high_register,
                          low |-> low_register, fc |-> fc],
                  env |-> env, result |-> r]
        /\ regs' = r.regs
        /\ call' = [op |-> "_read_32bit_from_registers"]
        /\ UNCHANGED <<gpio, limitsVars, controllerVars, threadVars>>

Transport_write_register(address, value, env) ==
    LET r == _write_register(regs, address, value, env)
    IN  /\ tp = NoTransportOp
        /\ tp' = [op |-> [kind |-> "write", address |-> address, value |-> value],
                  env |-> env, result |-> r]
        /\ regs' = r.regs
        /\ call' = [op |-> "_write_register"]
        /\ UNCHANGED <<gpio, limitsVars, controllerVars, threadVars>>

\* The caller has the outcome and leaves the transport
Transport_return ==
    /\ tp # NoTransportOp
    /\ tp' = NoTransportOp
    /\ call' = [op |-> "return"]
    /\ UNCHANGED <<gpio, regs, limitsVars, controllerVars, threadVars>>

NextTransport ==
    \/ \E env \in ReadEnvs :
            Transport_read_register(261, READ_HOLDING_REGISTER, env)
    \/ \E env \in Read32Envs :
            Transport_read_32bit_from_registers(262, 261, READ_INPUT_REGISTER, env)
    \/ \E address \in RegAddrs, value \in RegValues, env \in WriteEnvs :
            Transport_write_register(address, value, env)
    \/ Transport_return

SpecTransport == Init /\ [][NextTransport]_vars

-----------------------------------------------------------------------------
(* SpecController: the public operations of WallboxController, one call    *)
(* at a time.                                                              *)

\* How many controller calls a behaviour makes
MaxCalls == 3

\* The outcomes of the assignment a decision leads to; one, unused, outcome
\* when _apply_decision makes no assignment
OutcomesFor(decision, last_applied) ==
    IF \/ decision.applied_current = None
       \/ (last_applied # None
           /\ Abs(last_applied - decision.applied_current) < TOLERANCE)
    THEN {[raised |-> FALSE, exc |-> "None", reg |-> regs[261], writes |-> 0]}
    ELSE SetterOutcomes[decision.applied_current, regs[261]]

\* set_max_current: return decision.applied_current == value and not
\* decision.overridden
set_max_current_return(decision, value) ==
    decision.applied_current = value /\ ~decision.overridden

\* The part request_manual_max_current and update_hardware_inputs share:
\* remember the decision, apply it, overwrite its applied_current with what
\* _apply_decision returned.  The decision is the object the manager keeps
\* as _last_decision, so the overwrite shows there too.
ApplyAndReturn(name, args, r, outcome) ==
    LET a == _apply_decision(r.decision, last_applied_current, outcome)
        decision == [r.decision EXCEPT !.applied_current = a.ret]
    IN  /\ snapshots' = r.snapshots
        /\ manual_request' = r.manual_request
        /\ last_decision' = <<decision>>
        /\ last_limit_decision' = <<decision>>
        /\ last_applied_current' = a.last_applied
        /\ max_current_calls' = max_current_calls \o a.calls
        /\ regs' = IF Len(a.calls) > 0 THEN [regs EXCEPT ![261] = outcome.reg]
                                       ELSE regs
        /\ history' = Append(history, [op |-> name, args |-> args,
                                       write |-> a.write])
        /\ call' = [op |-> name, args |-> args, err |-> "None",
                    ret |-> IF name = "set_max_current"
                            THEN set_max_current_return(decision, args[1])
                            ELSE decision,
                    decision |-> decision,
                    write |-> a.write,
                    exc |-> IF Len(a.calls) > 0 THEN outcome.exc ELSE "None",
                    reg_writes |-> IF Len(a.calls) > 0 THEN outcome.writes ELSE 0]

\* WallboxController.request_manual_max_current(value)
request_manual_max_current(value) ==
    /\ Len(history) < MaxCalls
    /\ LET r == request_manual(snapshots, value)
       IN  \E outcome \in OutcomesFor(r.decision, last_applied_current) :
               ApplyAndReturn("request_manual_max_current", <<value>>, r, outcome)
    /\ UNCHANGED <<gpio, last_inputs, tp, threadVars>>

\* WallboxController.update_hardware_inputs(gpio13_high, gpio14_high)
update_hardware_inputs(gpio13_high, gpio14_high) ==
    /\ Len(history) < MaxCalls
    /\ LET e == evaluate(<<gpio13_high, gpio14_high>>)
       IN  IF e.err # "None"
           THEN /\ history' = Append(history,
                        [op |-> "update_hardware_inputs",
                         args |-> <<gpio13_high, gpio14_high>>, write |-> "none"])
                /\ call' = [op |-> "update_hardware_inputs",
                            args |-> <<gpio13_high, gpio14_high>>, err |-> e.err,
                            write |-> "none"]
                /\ UNCHANGED <<limitsVars, regs, last_applied_current,
                               last_limit_decision, max_current_calls>>
           ELSE /\ last_inputs' = <<<<gpio13_high, gpio14_high>>>>
                /\ LET r == apply_override_snapshot(snapshots, manual_request,
                                                    e.snap[1])
                   IN  \E outcome \in OutcomesFor(r.decision, last_applied_current) :
                           ApplyAndReturn("update_hardware_inputs",
                                          <<gpio13_high, gpio14_high>>, r, outcome)
    /\ UNCHANGED <<tp, threadVars>>

NextController ==
    \/ \E value \in Currents : request_manual_max_current(value)
    \/ \E a, b \in BOOLEAN : update_hardware_inputs(a, b) /\ UNCHANGED gpio

SpecController == Init /\ [][NextController]_vars

-----------------------------------------------------------------------------
(* SpecThreads: the keepalive worker, the GPIO poller and the request      *)
(* handlers calling the controller concurrently.  A controller method is   *)
(* a sequence of steps, so that the steps of different threads interleave  *)
(* wherever the lock lets them.                                            *)

\* How many limit-changing calls a behaviour makes
MaxThreadCalls == 2

\* The currents the handlers request: 16 A and 6 A
ThreadCurrents == {CurrentTable[1], CurrentTable[2]}

\* The limit-changing calls begun so far
CallsBegun ==
    Cardinality({i \in 1..Len(trace) : trace[i].step = "acquire"})

Event(t, id, step, value) ==
    [thread |-> t, id |-> id, step |-> step, value |-> value]

\* Thread t moves to position q with locals rec, entering the with block
\* (and waiting for the lock) or leaving it as q requires
Go(t, q, rec) ==
    LET p == threads[t].at
        enters == ~InsideWith(p) /\ InsideWith(q)
        leaves == InsideWith(p) /\ ~InsideWith(q)
    IN  /\ enters => CanAcquire(lock, t)
        /\ lock' = IF enters THEN Acquire(lock, t)
                   ELSE IF leaves THEN Release(lock, t)
                   ELSE lock
        /\ threads' = [threads EXCEPT ![t] = [rec EXCEPT !.at = q]]

\* WallboxController.start(): under the lock, start the keepalive thread
Thread_start ==
    /\ threads[KEEPALIVE].at = "unstarted"
    /\ CanAcquire(lock, "MainThread")
    /\ threads' = [threads EXCEPT ![KEEPALIVE] = Idle]
    /\ UNCHANGED <<keepalive, gpio, limitsVars, regs, tp, controllerVars, call, lock, wire, trace>>

\* A handler calls request_manual_max_current(value) and enters the with block
Thread_request_manual_max_current(t, value) ==
    /\ threads[t].at = "idle"
    /\ CallsBegun < MaxThreadCalls
    /\ Go(t, "locked", [Idle EXCEPT !.op = "request_manual_max_current",
                                    !.args = <<value>>, !.id = CallsBegun + 1])
    /\ trace' = Append(trace, Event(t, CallsBegun + 1, "acquire", None))
    /\ UNCHANGED <<keepalive, gpio, limitsVars, regs, tp, controllerVars, call, wire>>

\* The poller calls update_hardware_inputs(a, b) and enters the with block
Thread_update_hardware_inputs(t, gpio13_high, gpio14_high) ==
    /\ threads[t].at = "idle"
    /\ CallsBegun < MaxThreadCalls
    /\ Go(t, "locked", [Idle EXCEPT !.op = "update_hardware_inputs",
                                    !.args = <<gpio13_high, gpio14_high>>,
                                    !.id = CallsBegun + 1])
    /\ trace' = Append(trace, Event(t, CallsBegun + 1, "acquire", None))
    /\ UNCHANGED <<keepalive, gpio, limitsVars, regs, tp, controllerVars, call, wire>>

\* request_manual: self._manual_request = value; self._snapshots[...] = ...
Thread_request_manual(t) ==
    LET th == threads[t]
    IN  /\ th.at = "locked"
        /\ th.op = "request_manual_max_current"
        /\ snapshots' = DictSet(snapshots, ManualSnapshot(th.args[1]))
        /\ manual_request' = th.args[1]
        /\ Go(t, "mutated", th)
        /\ trace' = Append(trace, Event(t, th.id, "mutate", th.args[1]))
        /\ UNCHANGED <<keepalive, gpio, last_decision, last_inputs, regs, tp, controllerVars,
                       call, wire>>

\* update_hardware_inputs: evaluate the inputs (the call raises when evaluate
\* does, leaving the with block) and install the snapshot
Thread_evaluate(t) ==
    LET th == threads[t]
        e  == evaluate(th.args)
    IN  /\ th.at = "locked"
        /\ th.op = "update_hardware_inputs"
        /\ IF e.err # "None"
           THEN /\ Go(t, "idle", Idle)
                /\ history' = Append(history, [op |-> th.op, args |-> th.args,
                                               write |-> "none"])
                /\ call' = [op |-> th.op, args |-> th.args, err |-> e.err,
                            write |-> "none"]
                /\ trace' = Append(trace, Event(t, th.id, "raise", None))
                /\ UNCHANGED <<keepalive, gpio, limitsVars, regs, tp, last_applied_current,
                               last_limit_decision, max_current_calls, wire>>
           ELSE /\ last_inputs' = <<th.args>>
                /\ snapshots' = DictSet(snapshots, e.snap[1])
                /\ Go(t, "mutated", th)
                /\ trace' = Append(trace, Event(t, th.id, "mutate",
                                                e.snap[1].current_amps))
                /\ UNCHANGED <<keepalive, gpio, manual_request, last_decision, regs, tp,
                               controllerVars, call, wire>>

\* return self._resolve(); self._last_limit_decision = decision
Thread_resolve(t) ==
    LET th == threads[t]
        decision == _resolve(snapshots)
    IN  /\ th.at = "mutated"
        /\ last_decision' = <<decision>>
        /\ last_limit_decision' = <<decision>>
        /\ Go(t, "resolved", [th EXCEPT !.decision = <<decision>>])
        /\ trace' = Append(trace, Event(t, th.id, "resolve",
                                        decision.applied_current))
        /\ UNCHANGED <<keepalive, gpio, snapshots, manual_request, last_inputs, regs, tp,
                       last_applied_current, max_current_calls, history,
                       call, wire>>

\* _apply_decision up to the assignment self.wallbox.max_current = target
Thread_apply_decision(t) ==
    LET th == threads[t]
        target == th.decision[1].applied_current
    IN  /\ th.at = "resolved"
        /\ IF target = None
           THEN /\ Go(t, "applied", [th EXCEPT !.ret = None, !.write = "none"])
                /\ UNCHANGED <<max_current_calls, wire, trace>>
           ELSE IF /\ last_applied_current # None
                   /\ Abs(last_applied_current - target) < TOLERANCE
           THEN /\ Go(t, "applied", [th EXCEPT !.ret = target,
                                               !.write = "skipped"])
                /\ UNCHANGED <<max_current_calls, wire, trace>>
           ELSE /\ Go(t, "writing", th)
                /\ max_current_calls' = Append(max_current_calls, target)
                /\ wire' = wire \cup {t}
                /\ trace' = Append(trace, Event(t, th.id, "write", target))
        /\ UNCHANGED <<keepalive, gpio, limitsVars, regs, tp, last_applied_current,
                       last_limit_decision, history, call>>

\* The assignment ends: _apply_decision remembers the target, or forgets the
\* last applied current when the setter raised
Thread_write_done(t) ==
    LET th == threads[t]
        target == th.decision[1].applied_current
    IN  /\ th.at = "writing"
        /\ \E outcome \in SetterOutcomes[target, regs[261]] :
              /\ regs' = [regs EXCEPT ![261] = outcome.reg]
              /\ last_applied_current' = IF outcome.raised THEN None ELSE target
              /\ Go(t, "applied",
                    [th EXCEPT !.ret = IF outcome.raised THEN None ELSE target,
                               !.write = IF outcome.raised THEN "failed" ELSE "ok"])
        /\ wire' = wire \ {t}
        /\ trace' = Append(trace, Event(t, th.id, "written", target))
        /\ UNCHANGED <<keepalive, gpio, limitsVars, tp, last_limit_decision, max_current_calls,
                       history, call>>

\* decision.applied_current = applied; return decision (leaving the with
\* block).  The decision is the object the manager and the controller
\* remember, unless another resolution has replaced it there.
Thread_return(t) ==
    LET th == threads[t]
        decision == [th.decision[1] EXCEPT !.applied_current = th.ret]
    IN  /\ th.at = "applied"
        /\ last_decision' = IF last_decision = th.decision
                            THEN <<decision>> ELSE last_decision
        /\ last_limit_decision' = IF last_limit_decision = th.decision
                                  THEN <<decision>> ELSE last_limit_decision
        /\ history' = Append(history, [op |-> th.op, args |-> th.args,
                                       write |-> th.write])
        /\ call' = [op |-> th.op, args |-> th.args, err |-> "None",
                    ret |-> decision, write |-> th.write]
        /\ Go(t, "idle", Idle)
        /\ trace' = Append(trace, Event(t, th.id, "return", th.ret))
        /\ UNCHANGED <<keepalive, gpio, snapshots, manual_request, last_inputs, regs, tp,
                       last_applied_current, max_current_calls, wire>>

\* A handler calls get_max_current() and enters the with block
Thread_get_max_current(t) ==
    /\ threads[t].at = "idle"
    /\ Go(t, "locked", [Idle EXCEPT !.op = "get_max_current"])
    /\ UNCHANGED <<keepalive, gpio, limitsVars, regs, tp, controllerVars, call, wire, trace>>

\* _keepalive_worker: one iteration of the loop enters the with block
Thread_keepalive_worker(t) ==
    /\ threads[t].at = "idle"
    /\ Go(t, "locked", [Idle EXCEPT !.op = "_keepalive_worker"])
    /\ UNCHANGED <<keepalive, gpio, limitsVars, regs, tp, controllerVars, call, wire, trace>>

\* The register read of a getter or of the keepalive is sent
Thread_read_begin(t) ==
    LET th == threads[t]
    IN  /\ th.at = "locked"
        /\ th.op \in {"get_max_current", "_keepalive_worker"}
        /\ Go(t, "reading", th)
        /\ wire' = wire \cup {t}
        /\ UNCHANGED <<keepalive, gpio, limitsVars, regs, tp, controllerVars, call, trace>>

\* The read returns or raises, and the with block is left
Thread_read_done(t) ==
    /\ threads[t].at = "reading"
    /\ Go(t, "idle", Idle)
    /\ wire' = wire \ {t}
    /\ UNCHANGED <<keepalive, gpio, limitsVars, regs, tp, controllerVars, call, trace>>

NextThreads ==
    \/ Thread_start
    \/ \E t \in Handlers, value \in ThreadCurrents :
            Thread_request_manual_max_current(t, value)
    \/ \E a, b \in BOOLEAN : Thread_update_hardware_inputs(GPIO, a, b)
    \/ \E t \in Threads : Thread_request_manual(t)
    \/ \E t \in Threads : Thread_evaluate(t)
    \/ \E t \in Threads : Thread_resolve(t)
    \/ \E t \in Threads : Thread_apply_decision(t)
    \/ \E t \in Threads : Thread_write_done(t)
    \/ \E t \in Threads : Thread_return(t)
    \/ \E t \in Handlers : Thread_get_max_current(t)
    \/ Thread_keepalive_worker(KEEPALIVE)
    \/ \E t \in Threads : Thread_read_begin(t)
    \/ \E t \in Threads : Thread_read_done(t)

SpecThreads == Init /\ [][NextThreads]_vars

-----------------------------------------------------------------------------
(* Properties of the arbitration (SpecLimits).                             *)

\* The stored snapshots of a source, read off the state
StoredOf(source) ==
    {snapshots[i] : i \in {j \in 1..Len(snapshots) : snapshots[j].source = source}}

\* The currents of the enforced hardware snapshots that have one
EnforcedHardwareCurrents ==
    {s.current_amps : s \in {t \in StoredOf(HARDWARE_INPUT) :
                                t.enforced /\ t.current_amps # None}}

\* The enforced manual requests that have a current (at most one)
EnforcedManualCurrents ==
    {s.current_amps : s \in {t \in StoredOf(MANUAL_REQUEST) :
                                t.enforced /\ t.current_amps # None}}

ManagerCalls == {"request_manual", "apply_override_snapshot", "clear_source"}

\* C1: with an enforced manual request m and an enforced hardware minimum h
\* stored, the decision of the last manager call is applied_current =
\* min(m, h), overridden = (m > h), origin = MANUAL_REQUEST.
C1_BothPresent ==
    \A m \in EnforcedManualCurrents : \A h \in EnforcedHardwareCurrents :
        (\A k \in EnforcedHardwareCurrents : h <= k)
        => /\ Len(last_decision) = 1
           /\ last_decision[1].applied_current = (IF m <= h THEN m ELSE h)
           /\ last_decision[1].overridden = (m > h)
           /\ last_decision[1].origin = MANUAL_REQUEST

\* C1 witness: a hardware snapshot of 6 A was applied over a manual request
\* of 16 A, so the hardware cap is the binding value.
C1_Witness ==
    /\ call.op = "apply_override_snapshot"
    /\ EnforcedManualCurrents = {1600}
    /\ EnforcedHardwareCurrents = {600}
    /\ call.ret.applied_current = 600
    /\ call.ret.overridden

\* C3: with the manual request absent or unenforced and an enforced hardware
\* snapshot with a current stored, the decision is the minimum hardware
\* current, its origin the hardware source, and overridden = false.
C3_HardwareOnly ==
    \A h \in EnforcedHardwareCurrents :
        (/\ \A k \in EnforcedHardwareCurrents : h <= k
         /\ \A s \in StoredOf(MANUAL_REQUEST) : ~s.enforced)
        => /\ Len(last_decision) = 1
           /\ last_decision[1].applied_current = h
           /\ last_decision[1].origin = HARDWARE_INPUT
           /\ last_decision[1].overridden = FALSE

\* C3 witness: a hardware snapshot resolved while an unenforced manual
\* snapshot that still carries a lower current is stored.
C3_Witness ==
    /\ call.op \in ManagerCalls
    /\ EnforcedHardwareCurrents = {1600}
    /\ \E s \in StoredOf(MANUAL_REQUEST) : ~s.enforced /\ s.current_amps = 600
    /\ call.ret.applied_current = 1600

\* The table of the two-input limiter: <<current, mode>> for inputs (A, B)
TwoInputTable(a, b) ==
    IF a /\ ~b THEN <<0, "no_charge">>
    ELSE IF ~a /\ b THEN <<1600, "normal_charge">>
    ELSE <<600, "reduced_charge">>

\* C4: evaluate called with the two inputs (A, B) returns an enforced
\* HARDWARE_INPUT snapshot whose current and mode follow the truth table and
\* whose details echo both inputs.
C4_TruthTable ==
    (call.op = "evaluate" /\ Len(call.args) = 2)
    => /\ call.err = "None"
       /\ Len(call.ret) = 1
       /\ call.ret[1].source = HARDWARE_INPUT
       /\ call.ret[1].enforced
       /\ call.ret[1].current_amps = TwoInputTable(call.args[1], call.args[2])[1]
       /\ call.ret[1].details.mode = TwoInputTable(call.args[1], call.args[2])[2]
       /\ call.ret[1].details.inputs = call.args

\* C17: clear_source(HARDWARE_INPUT) called when the last decision was a
\* manual request capped by the hardware returns the manual request alone
\* (its current, origin MANUAL_REQUEST, not overridden); and calling
\* clear_source(s) once more leaves the stored snapshots, the remembered
\* manual value and the decision as they are.
C17_ClearRestoresManual ==
    call.op = "clear_source"
    => /\ (/\ call.source = HARDWARE_INPUT
           /\ Len(call.before) = 1
           /\ call.before[1].overridden)
          => /\ EnforcedManualCurrents = {call.ret.applied_current}
             /\ call.ret.applied_current > call.before[1].applied_current
             /\ call.ret.origin = MANUAL_REQUEST
             /\ call.ret.overridden = FALSE
       /\ LET again == clear_source(snapshots, manual_request, call.source)
          IN  /\ again.snapshots = snapshots
              /\ again.manual_request = manual_request
              /\ again.decision = call.ret
              /\ last_decision = <<call.ret>>

\* C17 witness: the hardware source is cleared after its 6 A capped a manual
\* request of 16 A.
C17_Witness ==
    /\ call.op = "clear_source"
    /\ call.source = HARDWARE_INPUT
    /\ Len(call.before) = 1
    /\ call.before[1].overridden
    /\ call.before[1].applied_current = 600
    /\ call.ret.applied_current = 1600

\* The stored snapshots without the one at position i
WithoutSnapshot(i) ==
    SubSeq(snapshots, 1, i - 1) \o SubSeq(snapshots, i + 1, Len(snapshots))

\* C18: for every stored snapshot that is not enforced, whatever its source
\* and current, the decision has the applied_current, origin and overridden
\* that resolution gives with that snapshot removed.
C18_UnenforcedIgnored ==
    Len(last_decision) = 1
    => \A i \in 1..Len(snapshots) :
          ~snapshots[i].enforced
          => LET d == _resolve(WithoutSnapshot(i))
             IN  /\ last_decision[1].applied_current = d.applied_current
                 /\ last_decision[1].origin = d.origin
                 /\ last_decision[1].overridden = d.overridden

\* C18 witness: an unenforced hardware snapshot of 6 A is stored beside an
\* enforced manual request of 16 A, and the decision is the 16 A.
C18_Witness ==
    /\ call.op \in ManagerCalls
    /\ \E s \in StoredOf(HARDWARE_INPUT) : ~s.enforced /\ s.current_amps = 600
    /\ EnforcedManualCurrents = {1600}
    /\ last_decision[1].applied_current = 1600
    /\ last_decision[1].overridden = FALSE

\* C19: every manager call returns a decision, which the manager remembers:
\* applied_current is a current or absent, origin a source or absent,
\* overridden a boolean; when no enforced snapshot has a current the decision
\* is applied_current absent, origin absent, overridden false.
C19_ArbitrationTotal ==
    call.op \in ManagerCalls
    => /\ last_decision = <<call.ret>>
       /\ call.ret.applied_current \in
             EnforcedManualCurrents \cup EnforcedHardwareCurrents \cup {None}
       /\ call.ret.origin \in LimitSource \cup {"None"}
       /\ call.ret.overridden \in BOOLEAN
       /\ call.ret.snapshots = snapshots
       /\ EnforcedManualCurrents \cup EnforcedHardwareCurrents = {}
          => /\ call.ret.applied_current = None
             /\ call.ret.origin = "None"
             /\ call.ret.overridden = FALSE

\* C19 witness: the stored snapshots are an enforced hardware snapshot
\* without a current and the manual snapshot left by request_manual(None);
\* the decision is absent.
C19_Witness ==
    /\ call.op \in ManagerCalls
    /\ \E s \in StoredOf(HARDWARE_INPUT) : s.enforced /\ s.current_amps = None
    /\ \E s \in StoredOf(MANUAL_REQUEST) : ~s.enforced /\ s.current_amps = None
    /\ call.ret.applied_current = None
    /\ call.ret.origin = "None"

-----------------------------------------------------------------------------
(* Properties of the transport (SpecTransport).                            *)

\* The indices of the events of tp that are calls of `name`
EventsOf(name) ==
    {i \in 1..Len(tp.result.events) : tp.result.events[i].call = name}

\* The read-backs of a verified write that returned another value than written
Mismatches ==
    {i \in EventsOf("read_register") :
        /\ tp.result.events[i].outcome = "ok"
        /\ tp.result.events[i].value # tp.op.value}

\* C5: a register read makes at most 3 attempts, each retry following a link
\* fault and a reconnection; a read that meets a link fault on attempts 1 and
\* 2 and succeeds on attempt 3 returns the register's value after exactly two
\* reconnections.
C5_ReadRetryBound ==
    tp.op.kind = "read"
    => LET ev == tp.result.events
       IN  /\ Cardinality(EventsOf("read_register")) <= 3
           /\ \A i \in EventsOf("read_register") :
                 i > 1 => /\ ev[i - 1].call = "reconnect"
                          /\ ev[i - 2].call = "read_register"
                          /\ ev[i - 2].outcome = "OSError"
           /\ (/\ tp.env.io[1].a = "OSError"
               /\ tp.env.io[2].a = "OSError"
               /\ tp.env.io[3].a = "ok")
              => /\ ~tp.result.raised
                 /\ tp.result.value = regs[tp.op.address]
                 /\ Cardinality(EventsOf("read_register")) = 3
                 /\ Cardinality(EventsOf("reconnect")) = 2

\* C5 witness: a read of a register holding 160 fails with a link fault
\* twice and returns 160 from the third attempt.
C5_Witness ==
    /\ tp.op.kind = "read"
    /\ tp.env.io[1].a = "OSError"
    /\ tp.env.io[2].a = "OSError"
    /\ tp.env.io[3].a = "ok"
    /\ tp.result.value = 160

\* C6: _write_register reads the register back right after each write; a
\* read-back that differs from the written value ends the operation at once
\* with an error (no later write, read or reconnection, and none at all when
\* it is the first attempt's); the operation returns True exactly when its
\* last call is a read-back equal to the written value.
C6_VerifiedWrite ==
    tp.op.kind = "write"
    => LET ev == tp.result.events
       IN  /\ \A i \in EventsOf("write_register") :
                 ev[i].outcome \in {"ok", "lost"}
                 => /\ i < Len(ev)
                    /\ ev[i + 1].call = "read_register"
                    /\ ev[i + 1].address = tp.op.address
           /\ \A i \in Mismatches :
                 /\ tp.result.raised
                 /\ i = Len(ev)
                 /\ \E k \in 1..Len(tp.result.cause) :
                       tp.result.cause[k].type = "RuntimeError"
                       /\ tp.result.cause[k].what = "Verification mismatch"
                 /\ ev[i].attempt = 1 => EventsOf("reconnect") = {}
           /\ ~tp.result.raised
              <=> /\ Len(ev) > 0
                  /\ ev[Len(ev)].call = "read_register"
                  /\ ev[Len(ev)].outcome = "ok"
                  /\ ev[Len(ev)].value = tp.op.value
           /\ ~tp.result.raised => tp.result.value = TRUE

\* C6 witness: the first read-back of a write of 160 returns another value.
C6_Witness ==
    /\ tp.op.kind = "write"
    /\ tp.op.value = 160
    /\ Mismatches = {2}
    /\ tp.result.raised

\* The call of attempt k that the plan lets end with a link fault
FaultingCall(kind, plan) ==
    IF kind = "read" THEN "read_register"
    ELSE IF kind = "read32" THEN "read_register"
    ELSE IF plan.a = "OSError" THEN "write_register" ELSE "read_register"

Exhausted ==
    /\ tp.op.kind \in {"read", "read32", "write"}
    /\ \A k \in 1..3 : PlanIsTransient(tp.env.io[k])

\* C7: when all 3 attempts of a read, wide read or verified write end with a
\* link fault, the operation raises a RuntimeError naming the register whose
\* cause chain ends in the fault of the third attempt.
C7_Exhaustion ==
    Exhausted
    => /\ tp.result.raised
       /\ Len(tp.result.cause) = 3
       /\ tp.result.cause[1].type = "RuntimeError"
       /\ tp.result.cause[1].register =
             (IF tp.op.kind = "read32" THEN <<tp.op.high, tp.op.low>>
                                       ELSE tp.op.address)
       /\ tp.result.cause[2].type = "RuntimeError"
       /\ tp.result.cause[3].type = "OSError"
       /\ tp.result.cause[3].attempt = 3
       /\ tp.result.cause[3].call = FaultingCall(tp.op.kind, tp.env.io[3])

\* C7 witness: a verified write whose first attempt fails in the write and
\* whose third attempt fails in the read-back.
C7_Witness ==
    /\ Exhausted
    /\ tp.op.kind = "write"
    /\ tp.env.io[1].a = "OSError"
    /\ tp.env.io[3].b = "OSError"
    /\ tp.result.raised

\* What a caller can inspect of the error besides its message text: the
\* exception types along the __cause__ chain, outermost first
CauseTypes ==
    [k \in 1..Len(tp.result.cause) |-> tp.result.cause[k].type]

\* C13: the error of a verified write tells a verification fault from a
\* transport fault without its message text: the cause chain of a read-back
\* mismatch is RuntimeError <- RuntimeError and ends there, that of exhausted
\* link faults is RuntimeError <- RuntimeError <- OSError, and no other
\* outcome of _write_register has either chain.
C13_FaultsDistinguishable ==
    tp.op.kind = "write"
    => /\ Mismatches # {}
          <=> CauseTypes = <<"RuntimeError", "RuntimeError">>
       /\ Exhausted
          <=> CauseTypes = <<"RuntimeError", "RuntimeError", "OSError">>

\* C13 witness: a write whose first attempt meets a link fault and whose
\* second attempt reads back another value: a verification fault with no
\* OSError in its cause chain.
C13_Witness ==
    /\ tp.op.kind = "write"
    /\ tp.env.io[1].a = "OSError"
    /\ Mismatches # {}
    /\ tp.result.raised
    /\ CauseTypes = <<"RuntimeError", "RuntimeError">>

\* The read_register calls of tp that raised an error other than a link fault
NonTransientReads ==
    {i \in EventsOf("read_register") :
        tp.result.events[i].outcome \notin {"ok", "OSError"}}

\* C14: a register read that raises an error other than a link fault ends
\* _read_register there: no attempt and no reconnection follows, and the call
\* raises a RuntimeError naming the register whose cause is that error; when
\* the first attempt raises it, there is exactly one attempt and no
\* reconnection.
C14_NonTransientNotRetried ==
    tp.op.kind = "read"
    => \A i \in NonTransientReads :
          LET ev == tp.result.events
          IN  /\ i = Len(ev)
              /\ tp.result.raised
              /\ Len(tp.result.cause) = 2
              /\ tp.result.cause[1].type = "RuntimeError"
              /\ tp.result.cause[1].register = tp.op.address
              /\ tp.result.cause[2].type = ev[i].outcome
              /\ tp.result.cause[2].attempt = ev[i].attempt
              /\ ev[i].attempt = 1
                 => /\ Cardinality(EventsOf("read_register")) = 1
                    /\ EventsOf("reconnect") = {}

\* C14 witness: the first read of register 261 raises ValueError.
C14_Witness ==
    /\ tp.op.kind = "read"
    /\ tp.op.address = 261
    /\ tp.env.io[1].a = "ValueError"
    /\ Len(tp.result.events) = 1
    /\ tp.result.raised

\* C15: a wide read returns high * 2^16 + low of a high word and a low word
\* read in the same attempt; the low word is only ever read right after a
\* successful read of the high word in that attempt, and after a link fault
\* in either read the next attempt starts again with the high word.
C15_WideReadOneUnit ==
    tp.op.kind = "read32"
    => LET ev == tp.result.events
           n  == Len(ev)
       IN  /\ ~tp.result.raised
              => /\ n >= 2
                 /\ ev[n - 1].call = "read_register"
                 /\ ev[n - 1].address = tp.op.high
                 /\ ev[n - 1].outcome = "ok"
                 /\ ev[n].call = "read_register"
                 /\ ev[n].address = tp.op.low
                 /\ ev[n].outcome = "ok"
                 /\ ev[n - 1].attempt = ev[n].attempt
                 /\ tp.result.value = ev[n - 1].value * 65536 + ev[n].value
           /\ \A i \in EventsOf("read_register") :
                 ev[i].address = tp.op.low
                 => /\ i > 1
                    /\ ev[i - 1].call = "read_register"
                    /\ ev[i - 1].address = tp.op.high
                    /\ ev[i - 1].outcome = "ok"
                    /\ ev[i - 1].attempt = ev[i].attempt
           /\ \A i \in EventsOf("read_register") :
                 (ev[i].outcome = "OSError" /\ ev[i].attempt < 3)
                 => /\ i + 2 <= n
                    /\ ev[i + 1].call = "reconnect"
                    /\ ev[i + 2].call = "read_register"
                    /\ ev[i + 2].address = tp.op.high
                    /\ ev[i + 2].attempt = ev[i].attempt + 1

\* C15 witness: the low word's read meets a link fault in the first attempt;
\* the second attempt reads both words and the call returns their
\* combination.
C15_Witness ==
    /\ tp.op.kind = "read32"
    /\ tp.env.io[1] = [a |-> "ok", b |-> "OSError"]
    /\ ~tp.result.raised
    /\ Cardinality(EventsOf("read_register")) = 4
    /\ regs[tp.op.high] = 160
    /\ regs[tp.op.low] = 60
    /\ tp.result.value = 160 * 65536 + 60

\* The calls of tp that start an operation attempt
AttemptStarts ==
    {i \in 1..Len(tp.result.events) :
        LET e == tp.result.events[i]
        IN  IF tp.op.kind = "write" THEN e.call = "write_register"
            ELSE IF tp.op.kind = "read32"
            THEN e.call = "read_register" /\ e.address = tp.op.high
            ELSE e.call = "read_register"}

\* C16: whatever the reconnections do, a transport operation makes at most 3
\* attempts and at most 2 reconnections; a reconnection, failed or not, is
\* followed by the next attempt, and none follows the third attempt.
C16_ReconnectConsumesAttempt ==
    tp.op.kind # "none"
    => LET ev == tp.result.events
       IN  /\ Cardinality(AttemptStarts) <= 3
           /\ \A i \in 1..Len(ev) : ev[i].attempt \in 1..3
           /\ Cardinality(EventsOf("reconnect")) <= 2
           /\ \A i \in EventsOf("reconnect") :
                 /\ ev[i].attempt < 3
                 /\ i < Len(ev)
                 /\ i + 1 \in AttemptStarts
                 /\ ev[i + 1].attempt = ev[i].attempt + 1
           /\ \A i \in AttemptStarts :
                 ev[i].attempt = 3
                 => \A j \in EventsOf("reconnect") : j < i

\* C16 witness: both reconnections of a verified write fail and all three
\* attempts meet a link fault.
C16_Witness ==
    /\ tp.op.kind = "write"
    /\ tp.env.rc[1] = FALSE
    /\ tp.env.rc[2] = FALSE
    /\ Cardinality(AttemptStarts) = 3
    /\ Cardinality(EventsOf("reconnect")) = 2
    /\ tp.result.raised

-----------------------------------------------------------------------------
(* Properties of the controller (SpecController).                          *)

\* The arbitration result read off the stored snapshots: the least current
\* of the enforced sources that have one
ResolvedCurrent ==
    LET cs == EnforcedManualCurrents \cup EnforcedHardwareCurrents
    IN  IF cs = {} THEN None ELSE CHOOSE c \in cs : \A d \in cs : c <= d

\* C2: request_manual_max_current(m) followed by update_hardware_inputs(a, b)
\* whose hardware limit h is below m returns applied_current = h, origin =
\* HARDWARE_INPUT, overridden = true, and Wallbox.max_current has been
\* assigned exactly m, then h.
C2_HardwareCapsManual ==
    (/\ Len(history) = 2
     /\ history[1].op = "request_manual_max_current"
     /\ history[1].write = "ok"
     /\ history[2].op = "update_hardware_inputs"
     /\ history[2].write # "failed"
     /\ TwoInputTable(history[2].args[1], history[2].args[2])[1] < history[1].args[1])
    => /\ call.err = "None"
       /\ call.ret.applied_current =
             TwoInputTable(history[2].args[1], history[2].args[2])[1]
       /\ call.ret.origin = HARDWARE_INPUT
       /\ call.ret.overridden
       /\ max_current_calls =
             <<history[1].args[1],
               TwoInputTable(history[2].args[1], history[2].args[2])[1]>>

\* N identical requests in a row on a fresh controller, none failing
RepeatedRequest ==
    /\ Len(history) > 0
    /\ \A i \in 1..Len(history) :
          /\ history[i].op = "request_manual_max_current"
          /\ history[i].args = history[1].args
          /\ history[i].write \in {"ok", "skipped"}

\* C8: a value is assigned to Wallbox.max_current only when no last applied
\* current is remembered or the value differs from it by at least 0.05 A;
\* N identical request_manual_max_current(v) calls in a row on a fresh
\* controller, all succeeding, make exactly one assignment.
C8_WriteDedup ==
    [][/\ max_current_calls' # max_current_calls
          => /\ Len(max_current_calls') = Len(max_current_calls) + 1
             /\ SubSeq(max_current_calls', 1, Len(max_current_calls))
                   = max_current_calls
             /\ \/ last_applied_current = None
                \/ Abs(max_current_calls'[Len(max_current_calls')]
                       - last_applied_current) >= 5
       /\ RepeatedRequest' => max_current_calls' = history'[1].args
      ]_vars

\* C8 witness: three requests of 16 A in a row, one assignment.
C8_Witness ==
    /\ RepeatedRequest
    /\ Len(history) = 3
    /\ history[1].args = <<1600>>
    /\ max_current_calls = <<1600>>

\* C9: a failed write empties the last applied current, and a call that
\* resolves a current while none is remembered assigns it to
\* Wallbox.max_current, whatever was assigned before.
C9_RetryAfterFailure ==
    [][history' # history
       => /\ call'.write = "failed" => last_applied_current' = None
          /\ (/\ last_applied_current = None
              /\ call'.err = "None"
              /\ ResolvedCurrent' # None)
             => max_current_calls' = Append(max_current_calls, ResolvedCurrent')
      ]_vars

\* C9 witness: 16 A written, the write of 6 A fails, 16 A is requested again
\* and assigned again.
C9_Witness ==
    /\ Len(history) = 3
    /\ history[1].write = "ok"
    /\ history[2].write = "failed"
    /\ history[2].args = <<600>>
    /\ history[3].write = "ok"
    /\ max_current_calls = <<1600, 600, 1600>>

\* C10: when the device write of a manual request fails, the returned
\* decision still carries the resolved current.
C10_FailedWriteKeepsResolved ==
    (call.op = "request_manual_max_current" /\ call.write = "failed")
    => call.ret.applied_current = ResolvedCurrent

\* C20: with an enforced manual request m and no enforced hardware snapshot
\* with a current, request_manual_max_current(m) returns a decision with
\* applied_current = m, origin MANUAL_REQUEST, overridden false, and on a
\* fresh controller Wallbox.max_current has been assigned m exactly once.
C20_ManualAlone ==
    (/\ call.op = "request_manual_max_current"
     /\ EnforcedHardwareCurrents = {})
    => /\ EnforcedManualCurrents = {call.args[1]}
       /\ call.ret.applied_current = call.args[1]
       /\ call.ret.origin = MANUAL_REQUEST
       /\ call.ret.overridden = FALSE
       /\ Len(history) = 1 => max_current_calls = call.args

-----------------------------------------------------------------------------
(* Properties of the concurrent controller (SpecThreads).                  *)

\* C11: under every interleaving of the keepalive worker, the GPIO poller
\* and the request handlers, at most one register read or write on the
\* wallbox is in flight.
C11_MutualExclusion == Cardinality(wire) <= 1

\* C11 witness: a handler's write is in flight while the keepalive worker and
\* the other handlers are in no register operation.
C11_Witness ==
    /\ \E t \in Handlers : wire = {t} /\ threads[t].at = "writing"
    /\ threads[KEEPALIVE].at = "idle"
    /\ Len(history) >= 1

\* The manager mutations, resolutions and device writes of the trace
CoreSteps ==
    SelectSeq(trace, LAMBDA e : e.step \in {"mutate", "resolve", "write", "written"})

\* The device writes of the trace
WriteSteps == SelectSeq(trace, LAMBDA e : e.step = "write")

\* The value call id resolved, None if it has not resolved
ResolvedBy(id) ==
    IF \E i \in 1..Len(trace) : trace[i].id = id /\ trace[i].step = "resolve"
    THEN trace[CHOOSE i \in 1..Len(trace) :
                   trace[i].id = id /\ trace[i].step = "resolve"].value
    ELSE None

\* C12: the mutation, resolution and device write of one call are not
\* interleaved with those of another call; the device writes follow the order
\* in which the calls acquired the lock (call ids count the acquisitions), one
\* write per call, each of the value its own call resolved.
C12_AtomicOrderedDecisions ==
    /\ \A j \in 1..(Len(CoreSteps) - 1) :
          CoreSteps[j].id # CoreSteps[j + 1].id
          => \A k \in (j + 1)..Len(CoreSteps) : CoreSteps[k].id # CoreSteps[j].id
    /\ \A i, j \in 1..Len(WriteSteps) :
          i < j => WriteSteps[i].id < WriteSteps[j].id
    /\ \A i \in 1..Len(WriteSteps) :
          WriteSteps[i].value = ResolvedBy(WriteSteps[i].id)
    /\ max_current_calls = [i \in 1..Len(WriteSteps) |-> WriteSteps[i].value]

\* C12 witness: two handlers have each completed a request, and the two
\* device writes are those of the first and of the second call, in order.
C12_Witness ==
    /\ Len(history) = 2
    /\ Len(WriteSteps) = 2
    /\ WriteSteps[1].thread # WriteSteps[2].thread
    /\ WriteSteps[1].id = 1
    /\ WriteSteps[2].id = 2
    /\ max_current_calls = <<1600, 600>>

-----------------------------------------------------------------------------
(* Further properties of the limit manager (SpecLimits).                   *)

\* The stored snapshots with every hardware snapshot removed
ManualAlone ==
    SelectSeq(snapshots, LAMBDA s : s.source = MANUAL_REQUEST)

\* C21 as stated: in every decision, overridden is true exactly when the
\* applied value differs from the applied value of the decision obtained
\* with all hardware snapshots removed.
C21_OverriddenIffDiffers ==
    Len(last_decision) = 1
    => (last_decision[1].overridden
        <=> last_decision[1].applied_current
              # _resolve(ManualAlone).applied_current)

\* C21: in every decision, overridden is true exactly when an enforced manual
\* request with a current is stored and the applied value differs from it,
\* that is from the decision obtained with all hardware snapshots removed;
\* without such a request overridden is false whatever the hardware applies.
C21_OverriddenIffManualCapped ==
    Len(last_decision) = 1
    => (last_decision[1].overridden
        <=> /\ EnforcedManualCurrents # {}
            /\ last_decision[1].applied_current
                 # _resolve(ManualAlone).applied_current)

\* C21 witness: a manual request of 16 A is capped by a hardware snapshot of
\* 6 A, and the decision is marked overridden.
C21_Witness ==
    /\ call.op \in ManagerCalls
    /\ EnforcedManualCurrents = {1600}
    /\ _resolve(ManualAlone).applied_current = 1600
    /\ last_decision[1].applied_current = 600
    /\ last_decision[1].overridden

-----------------------------------------------------------------------------
(* SpecCodec: one access to a property of Wallbox on a device whose         *)
(* registers are given; the access waits in `call` and the device is `regs`. *)

MaxCodecCurrent == 1700
MaxNegative == 20
MaxRaw == 200

ReadableProps == {"pcb_temperature", "modbus_timeout", "standby_control",
                  "remote_lock", "max_current", "failsafe_current"}
WritableProps == {"modbus_timeout", "standby_control", "remote_lock",
                  "max_current", "failsafe_current"}
CurrentProps == {"max_current", "failsafe_current"}

\* The values assigned to a property
ArgsOf(prop) ==
    CASE prop \in CurrentProps -> (0 - MaxNegative)..MaxCodecCurrent
      [] prop = "modbus_timeout" ->
            ((0 - MaxNegative)..MaxRaw) \cup {WordBase - 1, WordBase, WordBase + 1}
      [] OTHER -> BOOLEAN

\* The raw contents of a property's register: the words near 0 and, for the
\* temperature, those on both sides of the sign bit and below 0xFFFF
RawsOf(prop) ==
    IF prop = "pcb_temperature"
    THEN (0..MaxRaw) \cup ((32768 - MaxRaw)..(32768 + MaxRaw))
                    \cup ((WordBase - 1 - MaxRaw)..(WordBase - 1))
    ELSE (0..MaxRaw) \cup {WordBase - 1}

CodecDevice == [a \in {RegisterOf(p) : p \in ReadableProps} |-> 0]

\* A serial link without faults, and one on which every read or write raises
\* OSError and no reconnect succeeds
LinkUp ==
    [io |-> [k \in AttemptIndex |-> OkPlan], rc |-> [k \in ReconnectIndex |-> TRUE]]
LinkDown ==
    [io |-> [k \in AttemptIndex |-> [a |-> "OSError", b |-> "ok"]],
     rc |-> [k \in ReconnectIndex |-> FALSE]]
Links == {LinkUp, LinkDown}

InitCodec ==
    /\ \/ \E prop \in ReadableProps : \E raw \in RawsOf(prop) :
            /\ call = [op |-> "get", prop |-> prop, at |-> "pending", raw |-> raw]
            /\ regs = [CodecDevice EXCEPT ![RegisterOf(prop)] = raw]
       \/ \E prop \in WritableProps : \E value \in ArgsOf(prop) :
            /\ call = [op |-> "set", prop |-> prop, at |-> "pending",
                       value |-> value]
            /\ regs = CodecDevice
    /\ snapshots = <<>>
    /\ manual_request = None
    /\ last_decision = <<>>
    /\ last_inputs = <<>>
    /\ tp = NoTransportOp
    /\ last_applied_current = None
    /\ last_limit_decision = <<>>
    /\ max_current_calls = <<>>
    /\ history = <<>>
    /\ threads = [t \in Threads |->
                    IF t = KEEPALIVE THEN [Idle EXCEPT !.at = "unstarted"] ELSE Idle]
    /\ lock = Unlocked
    /\ wire = {}
    /\ trace = <<>>
    /\ gpio = NoPolls
    /\ keepalive = NotRunning

\* What the caller and the device see of the access with transport result r
CodecOutcome(r, env) ==
    [at     |-> "done",
     link   |-> IF env = LinkUp THEN "up" ELSE "down",
     raised |-> r.raised,
     exc    |-> IF r.raised THEN r.cause[1].type ELSE "None",
     result |-> r.value,
     writes |-> [i \in 1..Len(SelectSeq(r.events,
                                LAMBDA e : e.call = "write_register")) |->
                  LET e == SelectSeq(r.events,
                                LAMBDA f : f.call = "write_register")[i]
                  IN  <<e.address, e.value>>]]

\* value = wallbox.<prop>
Wallbox_get(prop) ==
    /\ call.at = "pending" /\ call.op = "get" /\ call.prop = prop
    /\ \E env \in Links :
          LET r == WallboxGet(prop, regs, env)
          IN  /\ call' = [op |-> "get", prop |-> prop, raw |-> call.raw]
                            @@ CodecOutcome(r, env)
              /\ regs' = r.regs
    /\ UNCHANGED <<gpio, limitsVars, tp, controllerVars, threadVars>>

\* wallbox.<prop> = value
Wallbox_set(prop) ==
    /\ call.at = "pending" /\ call.op = "set" /\ call.prop = prop
    /\ \E env \in Links :
          LET r == WallboxSet(prop, regs, call.value, env)
          IN  /\ call' = [op |-> "set", prop |-> prop, value |-> call.value]
                            @@ CodecOutcome(r, env)
              /\ regs' = r.regs
    /\ UNCHANGED <<gpio, limitsVars, tp, controllerVars, threadVars>>

NextCodec ==
    \/ \E prop \in ReadableProps : Wallbox_get(prop)
    \/ \E prop \in WritableProps : Wallbox_set(prop)

SpecCodec == InitCodec /\ [][NextCodec]_vars

-----------------------------------------------------------------------------
(* Properties of the register codec (SpecCodec).                            *)

\* The tenth-of-an-ampere encoding of a current of v hundredths of an ampere:
\* the whole number of tenths in v, fractions dropped
EncodingOf(v) ==
    CHOOSE e \in (0 - MaxCodecCurrent)..MaxCodecCurrent :
        IF v >= 0 THEN e * 10 <= v /\ v < e * 10 + 10
                  ELSE e * 10 >= v /\ v > e * 10 - 10

LegalEncoding(e) == e = 0 \/ (e >= 60 /\ e <= 160)

C23_CurrentDecodingValidity ==
    (/\ call.at = "done" /\ call.op = "get" /\ call.prop \in CurrentProps
     /\ call.link = "up"
     /\ ~LegalEncoding(call.raw))
    => /\ call.raised
       /\ call.exc = "ValueError"

\* The values of a property that a legal register content stands for
LegalDomain(prop) ==
    CASE prop \in CurrentProps -> {e * 10 : e \in {0} \cup (60..160)}
      [] prop = "modbus_timeout" -> 0..(WordBase - 1)
      [] OTHER -> BOOLEAN

\* C24: for every writable property and every value x of its legal domain,
\* x = property is one successful register write, and reading the property
\* back from the register that was written yields x.
C24_CodecRoundTrip ==
    (/\ call.at = "done" /\ call.op = "set" /\ call.link = "up"
     /\ call.value \in LegalDomain(call.prop))
    => /\ ~call.raised
       /\ Len(call.writes) = 1
       /\ call.writes[1][1] = RegisterOf(call.prop)
       /\ regs[RegisterOf(call.prop)] = call.writes[1][2]
       /\ LET back == WallboxGet(call.prop, regs, LinkUp)
          IN  ~back.raised /\ back.value = call.value

\* C24 witness: remote_lock = True has written 0 to register 259, which reads
\* back as locked.
C24_Witness ==
    /\ call.at = "done" /\ call.op = "set" /\ call.prop = "remote_lock"
    /\ call.value = TRUE
    /\ call.writes = << <<259, 0>> >>
    /\ WallboxGet("remote_lock", regs, LinkUp).value = TRUE

\* C28: the temperature read from raw register r is r taken as a 16-bit
\* two's complement number, divided by 10: the decoded value times 10 is the
\* one number within -32768..32767 that differs from r by a multiple of
\* 65536, which is r - 65536 from 0x8000 on and r below.
C28_TemperatureTwosComplement ==
    (/\ call.at = "done" /\ call.op = "get" /\ call.prop = "pcb_temperature"
     /\ call.link = "up")
    => /\ ~call.raised
       /\ call.result % 10 = 0
       /\ LET tenths == call.result \div 10
          IN  /\ tenths >= -32768 /\ tenths <= 32767
              /\ (tenths - call.raw) % WordBase = 0
              /\ tenths = IF call.raw >= 32768 THEN call.raw - WordBase
                                               ELSE call.raw

\* C28 witness: raw 0xFF9C = 65436 has been decoded to -10.0 degrees.
C28_Witness ==
    /\ call.at = "done" /\ call.op = "get" /\ call.prop = "pcb_temperature"
    /\ call.raw = 65436
    /\ call.result = -1000

-----------------------------------------------------------------------------
(* Properties of the manager's memory (SpecLimits).                        *)

\* The three reported fields of a decision
Reported(d) ==
    [applied_current |-> d.applied_current, origin |-> d.origin,
     overridden |-> d.overridden]

\* C25: after a manager call, last_decision() is the decision that call
\* returned and nothing older, and debug_snapshot() reports that decision
\* with the stored snapshots and the stored manual request; before any call
\* last_decision() is None and the reported decision is applied_current
\* absent, origin absent, overridden false.
C25_LastDecisionOnly ==
    LET dbg == debug_snapshot(snapshots, manual_request, last_decision)
    IN  /\ dbg.manual_request = manual_request
        /\ dbg.sources = snapshots
        /\ Len(last_decision_getter(last_decision)) <= 1
        /\ call.op \in ManagerCalls
           => /\ last_decision_getter(last_decision) = <<call.ret>>
              /\ dbg.decision = Reported(call.ret)
              /\ call.ret.snapshots = dbg.sources
        /\ call.op = "init"
           => /\ last_decision_getter(last_decision) = <<>>
              /\ dbg.decision = [applied_current |-> None, origin |-> "None",
                                 overridden |-> FALSE]
              /\ dbg.manual_request = None
              /\ dbg.sources = <<>>

\* C25 witness: a second call has replaced the decision of 16 A by the capped
\* one of 6 A, which is what debug_snapshot() reports.
C25_Witness ==
    /\ call.op = "apply_override_snapshot"
    /\ manual_request = 1600
    /\ call.ret.applied_current = 600
    /\ call.ret.overridden
    /\ debug_snapshot(snapshots, manual_request, last_decision).decision
         = [applied_current |-> 600, origin |-> MANUAL_REQUEST, overridden |-> TRUE]

\* The stored snapshots of source, in dictionary order
OfSource(snaps, source) == SelectSeq(snaps, LAMBDA s : s.source = source)

\* C26: a step that is clear_source(MANUAL_REQUEST) leaves no manual snapshot
\* and no remembered manual value, keeps the hardware snapshots, and returns
\* the hardware-only decision (the least enforced hardware current with
\* origin HARDWARE_INPUT and overridden false, or the absent decision); a
\* step that is clear_source(HARDWARE_INPUT) leaves the manual snapshot and
\* the remembered manual value as they were.
C26_ClearSourceFrame ==
    [][call'.op = "clear_source"
       => /\ call'.source = MANUAL_REQUEST
             => /\ OfSource(snapshots', MANUAL_REQUEST) = <<>>
                /\ manual_request' = None
                /\ OfSource(snapshots', HARDWARE_INPUT)
                     = OfSource(snapshots, HARDWARE_INPUT)
                /\ call'.ret.overridden = FALSE
                /\ IF EnforcedHardwareCurrents' = {}
                   THEN /\ call'.ret.applied_current = None
                        /\ call'.ret.origin = "None"
                   ELSE /\ call'.ret.applied_current \in EnforcedHardwareCurrents'
                        /\ \A h \in EnforcedHardwareCurrents' :
                              call'.ret.applied_current <= h
                        /\ call'.ret.origin = HARDWARE_INPUT
          /\ call'.source = HARDWARE_INPUT
             => /\ OfSource(snapshots', MANUAL_REQUEST)
                     = OfSource(snapshots, MANUAL_REQUEST)
                /\ manual_request' = manual_request
                /\ OfSource(snapshots', HARDWARE_INPUT) = <<>>]_vars

\* C26 witness: clear_source(MANUAL_REQUEST) has removed a manual request of
\* 16 A that a hardware snapshot of 6 A was capping; the decision is now the
\* hardware's own.
C26_Witness ==
    /\ call.op = "clear_source"
    /\ call.source = MANUAL_REQUEST
    /\ Len(call.before) = 1
    /\ call.before[1].origin = MANUAL_REQUEST
    /\ call.before[1].overridden
    /\ manual_request = None
    /\ call.ret.applied_current = 600
    /\ call.ret.origin = HARDWARE_INPUT

\* C29: whenever the manager holds a decision with a present applied_current,
\* that current is at most the current of every enforced hardware snapshot
\* that has one and at most the enforced manual request, if there is one.
C29_ArbitrationSafety ==
    (Len(last_decision) = 1 /\ last_decision[1].applied_current # None)
    => /\ \A h \in EnforcedHardwareCurrents : last_decision[1].applied_current <= h
       /\ \A m \in EnforcedManualCurrents : last_decision[1].applied_current <= m

\* C29 witness: a manual request of 6 A is in force under a hardware snapshot
\* of 16 A, and the decision applies the 6 A.
C29_Witness ==
    /\ call.op \in ManagerCalls
    /\ EnforcedManualCurrents = {600}
    /\ EnforcedHardwareCurrents = {1600}
    /\ last_decision[1].applied_current = 600

-----------------------------------------------------------------------------
(* SpecPoller: gpio_worker's loop, one iteration per step, calling the     *)
(* controller's update_hardware_inputs.                                    *)

\* How many times the loop polls the inputs
MaxPolls == 4

\* if last_state_1 == state1 or last_state_2 == state2: continue
SamePair_either_input(last_state_1, last_state_2, state1, state2) ==
    last_state_1 = <<state1>> \/ last_state_2 = <<state2>>

\* if last_state_1 == state1 and last_state_2 == state2: continue
SamePair(last_state_1, last_state_2, state1, state2) ==
    last_state_1 = <<state1>> /\ last_state_2 = <<state2>>

\* One iteration in which both buttons are read, as state1 and state2
gpio_worker_poll(state1, state2) ==
    /\ Len(gpio.polls) < MaxPolls
    /\ IF SamePair(gpio.last_state_1, gpio.last_state_2, state1, state2)
       THEN /\ gpio' = [gpio EXCEPT !.polls = Append(@, <<state1, state2>>)]
            /\ UNCHANGED <<limitsVars, regs, tp, controllerVars, call, threadVars>>
       ELSE /\ update_hardware_inputs(state1, state2)
            /\ gpio' = [last_state_1 |-> <<state1>>,
                        last_state_2 |-> <<state2>>,
                        last_target  |-> IF call'.err = "None"
                                         THEN call'.ret.applied_current
                                         ELSE gpio.last_target,
                        polls        |-> Append(gpio.polls, <<state1, state2>>)]

\* One iteration in which reading a button raises: the outer handler logs
\* the error and the loop goes on
gpio_worker_poll_error ==
    /\ Len(gpio.polls) < MaxPolls
    /\ gpio' = [gpio EXCEPT !.polls = Append(@, <<>>)]
    /\ UNCHANGED <<limitsVars, regs, tp, controllerVars, call, threadVars>>

NextPoller ==
    \/ \E state1, state2 \in BOOLEAN : gpio_worker_poll(state1, state2)
    \/ gpio_worker_poll_error

SpecPoller == Init /\ [][NextPoller]_vars

-----------------------------------------------------------------------------
(* Properties of the GPIO poller (SpecPoller).                             *)

\* The pairs among the first n polls, in poll order (a failed poll has none)
PolledPairs(n) == SelectSeq(SubSeq(gpio.polls, 1, n), LAMBDA p : p # <<>>)

\* The polls that polled a pair which is the first one or differs from the
\* pair polled before it
Edges ==
    {n \in 1..Len(gpio.polls) :
        /\ gpio.polls[n] # <<>>
        /\ LET before == PolledPairs(n - 1)
           IN  before = <<>> \/ before[Len(before)] # gpio.polls[n]}

\* The k-th smallest element of a set of numbers
Nth(S, k) == CHOOSE n \in S : Cardinality({m \in S : m <= n}) = k

\* C27: the calls of update_hardware_inputs the controller has received are,
\* in order, the pairs of the polls that polled a first or a changed pair,
\* one call each, with the new pair as arguments; a poll of the same pair,
\* and a poll that fails, add no call.
C27_EdgeDetection ==
    /\ Len(history) = Cardinality(Edges)
    /\ \A k \in 1..Len(history) :
          /\ history[k].op = "update_hardware_inputs"
          /\ history[k].args = gpio.polls[Nth(Edges, k)]

\* C27 witness: the inputs were polled as (F,F), (F,F), (T,F), (T,F), and the
\* controller was called twice, with (F,F) and with (T,F).
C27_Witness ==
    /\ gpio.polls = << <<FALSE, FALSE>>, <<FALSE, FALSE>>,
                       <<TRUE, FALSE>>, <<TRUE, FALSE>> >>
    /\ Len(history) = 2
    /\ history[1].args = <<FALSE, FALSE>>
    /\ history[2].args = <<TRUE, FALSE>>

-----------------------------------------------------------------------------
(* Properties of the controller and the device (SpecController).           *)

\* The controller calls so far that led to an assignment to max_current
WritingCalls == {k \in 1..Len(history) : history[k].write # "none"}

\* The most recent assignment to max_current, if any, succeeded
LastWriteSucceeded ==
    \A k \in WritingCalls :
        (\A j \in WritingCalls : j <= k) => history[k].write = "ok"

\* C30: once the hardware inputs have been reported to the controller and
\* the most recent device write succeeded, the manager stores an enforced
\* hardware-input snapshot with a current, and the current held by the
\* device's max-current register does not exceed it.
C30_DeviceCap ==
    (/\ \E k \in 1..Len(history) : history[k].op = "update_hardware_inputs"
     /\ LastWriteSucceeded)
    => /\ EnforcedHardwareCurrents # {}
       /\ \A h \in EnforcedHardwareCurrents : regs[261] * 10 <= h

-----------------------------------------------------------------------------
(* Properties of the manager's bookkeeping (SpecLimits).                   *)

\* C40: the manual_request that debug_snapshot() reports is the current_amps
\* of the stored MANUAL_REQUEST snapshot, and is absent when no such snapshot
\* is stored.
C40_ManualBookkeeping ==
    LET dbg == debug_snapshot(snapshots, manual_request, last_decision)
        manual == OfSource(dbg.sources, MANUAL_REQUEST)
    IN  IF manual = <<>>
        THEN dbg.manual_request = None
        ELSE dbg.manual_request = manual[1].current_amps

-----------------------------------------------------------------------------
(* Further properties of the transport (SpecTransport).                    *)

\* C32: in one _write_register call every read-back is the call right after
\* a write of the same attempt, so an attempt that follows a faulted
\* read-back writes the register again before it reads; the write is issued
\* at most MAX_RECONNECT_ATTEMPTS times, always with the same address and
\* value; and the call returns True only when the read-back after the last
\* write returned the written value.
C32_WriteRetriedAsUnit ==
    tp.op.kind = "write"
    => LET ev == tp.result.events
           writes == EventsOf("write_register")
       IN  /\ \A i \in EventsOf("read_register") :
                 /\ i > 1
                 /\ ev[i - 1].call = "write_register"
                 /\ ev[i - 1].attempt = ev[i].attempt
                 /\ ev[i - 1].outcome \in {"ok", "lost"}
           /\ Cardinality(writes) <= MAX_RECONNECT_ATTEMPTS
           /\ \A i \in writes : /\ ev[i].address = tp.op.address
                                /\ ev[i].value = tp.op.value
           /\ \A i, j \in writes : i # j => ev[i].attempt # ev[j].attempt
           /\ ~tp.result.raised
              => \E w \in writes :
                    /\ \A i \in writes : i <= w
                    /\ w + 1 = Len(ev)
                    /\ ev[w + 1].call = "read_register"
                    /\ ev[w + 1].outcome = "ok"
                    /\ ev[w + 1].value = tp.op.value

\* C32 witness: the first attempt's write went through and its read-back
\* faulted; the second attempt wrote again and read the value back.
C32_Witness ==
    /\ tp.op.kind = "write"
    /\ ~tp.result.raised
    /\ Cardinality(EventsOf("write_register")) = 2
    /\ \E i \in EventsOf("read_register") :
          /\ tp.result.events[i].outcome = "OSError"
          /\ tp.result.events[i - 1].outcome = "ok"
          /\ \E j \in EventsOf("write_register") : j > i

-----------------------------------------------------------------------------
(* SpecOperations: the controller's operations that reach the manager or   *)
(* the max-current register, one call at a time.                           *)

\* Bound on the number of controller calls in SpecOperations
MaxOperations == 2

\* WallboxController.set_max_current(value)
set_max_current(value) ==
    /\ Len(history) < MaxOperations
    /\ LET r == request_manual(snapshots, value)
       IN  \E outcome \in OutcomesFor(r.decision, last_applied_current) :
               ApplyAndReturn("set_max_current", <<value>>, r, outcome)
    /\ UNCHANGED <<gpio, last_inputs, tp, threadVars>>

\* WallboxController.set_property("max_current", value): the assignment to
\* Wallbox.max_current under the lock; an exception of the setter propagates
set_property_max_current(value) ==
    /\ Len(history) < MaxOperations
    /\ \E outcome \in SetterOutcomes[value, regs[261]] :
          /\ regs' = [regs EXCEPT ![261] = outcome.reg]
          /\ history' = Append(history,
                 [op |-> "set_property", args |-> <<value>>,
                  write |-> IF outcome.raised THEN "failed" ELSE "ok"])
          /\ call' = [op |-> "set_property", property_name |-> "max_current",
                      args |-> <<value>>,
                      err |-> outcome.exc,
                      ret |-> ~outcome.raised,
                      write |-> IF outcome.raised THEN "failed" ELSE "ok",
                      exc |-> outcome.exc, reg_writes |-> outcome.writes]
    /\ UNCHANGED <<gpio, limitsVars, tp, last_applied_current,
                   last_limit_decision, max_current_calls, threadVars>>

\* WallboxController.get_limit_debug()
get_limit_debug == debug_snapshot(snapshots, manual_request, last_decision)

NextOperations ==
    \/ \E value \in OptCurrents :
          Len(history) < MaxOperations /\ request_manual_max_current(value)
    \/ \E a, b \in BOOLEAN :
          /\ Len(history) < MaxOperations
          /\ update_hardware_inputs(a, b)
          /\ UNCHANGED gpio
    \/ \E value \in Currents : set_max_current(value)
    \/ \E value \in Currents : set_property_max_current(value)

SpecOperations == Init /\ [][NextOperations]_vars

-----------------------------------------------------------------------------
(* Properties of the controller's operations (SpecOperations).             *)

\* The calls so far whose assignment to Wallbox.max_current succeeded
SuccessfulWrites == {k \in 1..Len(history) : history[k].write = "ok"}

\* The current such a call assigned: its last argument
ValueWritten(k) == history[k].args[Len(history[k].args)]

\* C31: whenever a last applied current is remembered, it is the value of the
\* most recent successful write to the max-current register by any
\* controller operation, and the register holds its encoding; so a write
\* skipped by deduplication leaves the device at the target.
C31_DedupMemorySound ==
    last_applied_current # None
    => /\ SuccessfulWrites # {}
       /\ \A k \in SuccessfulWrites :
             (\A j \in SuccessfulWrites : j <= k)
             => ValueWritten(k) = last_applied_current
       /\ regs[261] = TenthsOf(last_applied_current)

RequestCalls == {"request_manual_max_current", "set_max_current"}

\* C33: a step that is request_manual_max_current(v) (alone or inside
\* set_max_current) leaves the manager with manual request v and the manual
\* snapshot of v, whether the device write succeeded, was skipped, failed in
\* transport or was rejected by the setter; a step that is
\* update_hardware_inputs leaves both as they are, and a decision it returns
\* is the arbitration over snapshots that hold that manual snapshot.
C33_NoRollback ==
    [][/\ call'.op \in RequestCalls
          => /\ manual_request' = call'.args[1]
             /\ Len(OfSource(snapshots', MANUAL_REQUEST)) = 1
             /\ OfSource(snapshots', MANUAL_REQUEST)[1].current_amps = call'.args[1]
             /\ OfSource(snapshots', MANUAL_REQUEST)[1].enforced
                   = (call'.args[1] # None)
       /\ call'.op = "update_hardware_inputs"
          => /\ manual_request' = manual_request
             /\ OfSource(snapshots', MANUAL_REQUEST)
                   = OfSource(snapshots, MANUAL_REQUEST)
             /\ call'.err = "None"
                => /\ Reported(last_decision'[1]) = Reported(_resolve(snapshots'))
                   /\ EnforcedManualCurrents' = EnforcedManualCurrents
      ]_vars

\* C33 witness: request_manual_max_current(20.0) was rejected by the setter's
\* range check, and the manager holds 20.0 A as the manual request.
C33_Witness ==
    /\ call.op = "request_manual_max_current"
    /\ call.args = <<2000>>
    /\ call.write = "failed"
    /\ call.exc = "ValueError"
    /\ manual_request = 2000
    /\ EnforcedManualCurrents = {2000}

\* C34: the decision get_limit_debug() reports has the applied_current,
\* origin and overridden that arbitration gives for the sources it reports.
C34_DebugConsistent ==
    Len(last_decision) = 1
    => get_limit_debug.decision = Reported(_resolve(get_limit_debug.sources))

\* C35: a controller call whose resolved applied_current is absent assigns
\* nothing to Wallbox.max_current, issues no register write and leaves the
\* last applied current and the max-current register as they were.
C35_AbsentDecisionNoWrite ==
    [][(/\ history' # history
        /\ call'.op \in RequestCalls \cup {"update_hardware_inputs"}
        /\ call'.err = "None"
        /\ _resolve(snapshots').applied_current = None)
       => /\ call'.write = "none"
          /\ call'.reg_writes = 0
          /\ max_current_calls' = max_current_calls
          /\ last_applied_current' = last_applied_current
          /\ regs' = regs
      ]_vars

\* C35 witness: after 16 A was written, request_manual_max_current(None)
\* resolved to no current; the register still holds 160 and 16 A is still
\* remembered as applied.
C35_Witness ==
    /\ call.op = "request_manual_max_current"
    /\ call.args = <<None>>
    /\ call.write = "none"
    /\ _resolve(snapshots).applied_current = None
    /\ regs[261] = 160
    /\ last_applied_current = 1600

\* C36: set_max_current(v) returns True exactly when its decision ends with
\* applied_current = v and overridden false, which is when v was written
\* successfully or the write was skipped as a duplicate and no enforced
\* hardware current lies below v; it returns False when the write failed;
\* either way v is the manager's manual request.
C36_SetMaxCurrentReturn ==
    call.op = "set_max_current"
    => LET v == call.args[1]
       IN  /\ call.ret \in BOOLEAN
           /\ call.ret <=> /\ last_decision[1].applied_current = v
                           /\ ~last_decision[1].overridden
           /\ call.ret <=> /\ call.write \in {"ok", "skipped"}
                           /\ \A h \in EnforcedHardwareCurrents : h >= v
           /\ call.write = "failed" => ~call.ret
           /\ manual_request = v
           /\ EnforcedManualCurrents = {v}

\* C36 witness: set_max_current(15.97) after 16.0 A was applied skipped the
\* write as a duplicate and returned True.
C36_Witness ==
    /\ call.op = "set_max_current"
    /\ call.args = <<1597>>
    /\ call.write = "skipped"
    /\ last_applied_current = 1600
    /\ call.ret = TRUE

-----------------------------------------------------------------------------
(* The controller's lifecycle: start(), stop() and the keepalive workers,  *)
(* next to the callers that take the controller lock (SpecLifecycle).      *)

\* How many keepalive Thread objects can be alive at once in the model
MaxWorkers == 2

WorkerTable == <<"WallboxKeepalive#1", "WallboxKeepalive#2", "WallboxKeepalive#3">>

\* The threading.Thread objects start() creates, all named "WallboxKeepalive"
Workers == {WorkerTable[i] : i \in 1..MaxWorkers}

\* The thread that calls start() and stop()
MAIN == "MainThread"

\* The callers of the locked controller methods: a request handler and the
\* GPIO poller
Clients == {HandlerTable[1], GPIO}

LifecycleThreads == {MAIN} \cup Clients \cup Workers

\* Thread.is_alive(): the worker's loop has begun and has not ended
is_alive(at) == at # "dead"

\* A join that waits without a timeout
join_timeout_elapsed_never(at) == FALSE

\* join(timeout=2.0) gives up on a worker that cannot end within the
\* timeout: one that is blocked on the lock the joining thread holds
join_timeout_elapsed(at) == at = "acquiring"

\* Where a thread waits for the controller lock, and where it is once it
\* has acquired it
LockedPosition ==
    [start_waiting |-> "start_locked", stop_waiting |-> "stop_locked",
     call_waiting |-> "call_locked", acquiring |-> "reading"]

WaitingForLock(t) == threads[t].at \in DOMAIN LockedPosition

At(t, q) == [threads EXCEPT ![t].at = q]

InitLifecycle ==
    /\ threads = [t \in LifecycleThreads |->
                    [at |-> IF t \in Workers THEN "dead" ELSE "idle"]]
    /\ keepalive = NotRunning
    /\ lock = Unlocked
    /\ wire = {}
    /\ trace = <<>>
    /\ snapshots = <<>>
    /\ manual_request = None
    /\ last_decision = <<>>
    /\ last_inputs = <<>>
    /\ regs = [a \in RegAddrs |-> 0]
    /\ tp = NoTransportOp
    /\ last_applied_current = None
    /\ last_limit_decision = <<>>
    /\ max_current_calls = <<>>
    /\ history = <<>>
    /\ call = [op |-> "init"]
    /\ gpio = NoPolls

lifecycleFrame ==
    <<gpio, limitsVars, regs, tp, controllerVars, call, trace>>

\* start() is called and reaches `with self._lock:`
Lifecycle_start_call ==
    /\ threads[MAIN].at = "idle"
    /\ \E w \in Workers : ~is_alive(threads[w].at)
    /\ threads' = At(MAIN, "start_waiting")
    /\ UNCHANGED <<lifecycleFrame, lock, wire, keepalive>>

\* stop() is called and reaches `with self._lock:`
Lifecycle_stop_call ==
    /\ threads[MAIN].at = "idle"
    /\ threads' = At(MAIN, "stop_waiting")
    /\ UNCHANGED <<lifecycleFrame, lock, wire, keepalive>>

\* A locked controller method is called and reaches
\* `with self._thread_safe_access():`
Lifecycle_client_call(t) ==
    /\ threads[t].at = "idle"
    /\ threads' = At(t, "call_waiting")
    /\ UNCHANGED <<lifecycleFrame, lock, wire, keepalive>>

\* `with self._lock:` a waiting thread acquires the lock; the keepalive
\* worker then sends its register read
Lifecycle_acquire(t) ==
    /\ WaitingForLock(t)
    /\ CanAcquire(lock, t)
    /\ lock' = Acquire(lock, t)
    /\ threads' = At(t, LockedPosition[threads[t].at])
    /\ wire' = IF t \in Workers THEN wire \cup {t} ELSE wire
    /\ UNCHANGED <<lifecycleFrame, keepalive>>

\* The body of start() under the lock
Lifecycle_start ==
    /\ threads[MAIN].at = "start_locked"
    /\ IF keepalive.running
       THEN /\ threads' = At(MAIN, "idle")
            /\ UNCHANGED keepalive
       ELSE \E w \in Workers :
               /\ ~is_alive(threads[w].at)
               /\ keepalive' = [running |-> TRUE, stop_keepalive |-> FALSE,
                                thread |-> w]
               /\ threads' = [At(MAIN, "idle") EXCEPT ![w].at = "check"]
    /\ lock' = Release(lock, MAIN)
    /\ UNCHANGED <<lifecycleFrame, wire>>

\* The body of stop() under the lock, up to the join
Lifecycle_stop ==
    /\ threads[MAIN].at = "stop_locked"
    /\ IF ~keepalive.running
       THEN /\ threads' = At(MAIN, "idle")
            /\ lock' = Release(lock, MAIN)
            /\ UNCHANGED keepalive
       ELSE /\ keepalive' = [keepalive EXCEPT !.running = FALSE,
                                              !.stop_keepalive = TRUE]
            /\ IF /\ keepalive.thread # "None"
                  /\ is_alive(threads[keepalive.thread].at)
               THEN /\ threads' = At(MAIN, "joining")
                    /\ UNCHANGED lock
               ELSE /\ threads' = At(MAIN, "idle")
                    /\ lock' = Release(lock, MAIN)
    /\ UNCHANGED <<lifecycleFrame, wire>>

\* self._keepalive_thread.join(timeout=2.0) returns, because the worker has
\* ended or because the timeout has elapsed; stop() leaves the with block
Lifecycle_join_done ==
    /\ threads[MAIN].at = "joining"
    /\ \/ ~is_alive(threads[keepalive.thread].at)
       \/ join_timeout_elapsed(threads[keepalive.thread].at)
    /\ threads' = At(MAIN, "idle")
    /\ lock' = Release(lock, MAIN)
    /\ UNCHANGED <<lifecycleFrame, wire, keepalive>>

\* A locked controller method returns or raises; either way the with block
\* is left and the lock released
Lifecycle_client_leave(t) ==
    /\ threads[t].at = "call_locked"
    /\ threads' = At(t, "idle")
    /\ lock' = Release(lock, t)
    /\ UNCHANGED <<lifecycleFrame, wire, keepalive>>

\* _keepalive_worker: `while not self._stop_keepalive.is_set():`
Keepalive_check(w) ==
    /\ threads[w].at = "check"
    /\ threads' = At(w, IF keepalive.stop_keepalive THEN "dead" ELSE "acquiring")
    /\ UNCHANGED <<lifecycleFrame, lock, wire, keepalive>>

\* The worker's register read returns or raises (the exception is caught
\* and logged); the with block is left
Keepalive_read_done(w) ==
    /\ threads[w].at = "reading"
    /\ threads' = At(w, "waiting")
    /\ lock' = Release(lock, w)
    /\ wire' = wire \ {w}
    /\ UNCHANGED <<lifecycleFrame, keepalive>>

\* self._stop_keepalive.wait(self._keepalive_interval) returns: the event is
\* set or the interval has passed
Keepalive_wait_done(w) ==
    /\ threads[w].at = "waiting"
    /\ threads' = At(w, "check")
    /\ UNCHANGED <<lifecycleFrame, lock, wire, keepalive>>

NextLifecycle ==
    \/ Lifecycle_start_call
    \/ Lifecycle_stop_call
    \/ \E t \in Clients : Lifecycle_client_call(t)
    \/ \E t \in LifecycleThreads : Lifecycle_acquire(t)
    \/ Lifecycle_start
    \/ Lifecycle_stop
    \/ Lifecycle_join_done
    \/ \E t \in Clients : Lifecycle_client_leave(t)
    \/ \E w \in Workers : Keepalive_check(w)
    \/ \E w \in Workers : Keepalive_read_done(w)
    \/ \E w \in Workers : Keepalive_wait_done(w)

SpecLifecycle == InitLifecycle /\ [][NextLifecycle]_vars

\* Fair scheduling: a thread that can take a step of a call it is in takes
\* it, and a thread for which the lock is free again and again acquires it
LifecycleFairness ==
    /\ \A t \in LifecycleThreads : SF_vars(Lifecycle_acquire(t))
    /\ WF_vars(Lifecycle_start)
    /\ WF_vars(Lifecycle_stop)
    /\ WF_vars(Lifecycle_join_done)
    /\ \A t \in Clients : WF_vars(Lifecycle_client_leave(t))
    /\ \A w \in Workers : WF_vars(Keepalive_check(w))
    /\ \A w \in Workers : WF_vars(Keepalive_read_done(w))
    /\ \A w \in Workers : WF_vars(Keepalive_wait_done(w))

SpecLifecycleFair == SpecLifecycle /\ LifecycleFairness

\* stop() has returned and start() has not been called since
StopReturned == ~keepalive.running /\ threads[MAIN].at = "idle"

\* C37: once stop() has returned, no keepalive worker has a register read
\* in flight.
C37_KeepaliveQuiescence ==
    StopReturned => \A w \in Workers : threads[w].at # "reading"

\* C38: at most one keepalive worker thread is alive at any time.
C38_SingleKeepaliveWorker ==
    Cardinality({w \in Workers : is_alive(threads[w].at)}) <= 1

=============================================================================
